---- MODULE Spec2Model ----
(***************************************************************************)
(* gosura: the filter inspector (pkg/inspector/filter_inspector.go) walks  *)
(* a Hasura-style filter JSON and notifies the registered hooks; the SQL   *)
(* parse hook (pkg/hooks/sql) turns the events into a parameterized WHERE. *)
(*                                                                         *)
(* JSON values are records [type, str, items]: items holds the elements of *)
(* an array, or the [k, v] entries of an object in source order.  Rendered *)
(* SQL text is a sequence of tokens; the Go string is their concatenation. *)
(***************************************************************************)
EXTENDS Integers, Sequences, FiniteSets, TLC

\* ------------------------------------------------------------------ bounds
\* Largest number of object keys in a where tree.
MaxKeys == 3
\* Largest number of elements of an array under a logical operator.
MaxElems == 2

\* ------------------------------------------------------------ JSON values
JNull == [type |-> "Null", str |-> "", items |-> <<>>]
JTrue == [type |-> "True", str |-> "true", items |-> <<>>]
JFalse == [type |-> "False", str |-> "false", items |-> <<>>]
JNum(s) == [type |-> "Number", str |-> s, items |-> <<>>]
JStr(s) == [type |-> "String", str |-> s, items |-> <<>>]
JArr(elems) == [type |-> "Array", str |-> "", items |-> elems]
JObj(entries) == [type |-> "Object", str |-> "", items |-> entries]
KV(key, value) == [k |-> key, v |-> value]

\* A result that does not exist (gjson.Result{}).
JMissing == [type |-> "Missing", str |-> "", items |-> <<>>]

IsArray(node) == node.type = "Array"
IsObject(node) == node.type = "Object"
Exists(node) == node.type # "Missing"

\* gjson Type.String(): objects and arrays are both of type JSON.
TypeName(node) == IF node.type \in {"Array", "Object"} THEN "JSON" ELSE node.type

\* gjson Result.Get on an object: the value of the first entry with that key.
Get(node, key) ==
  IF IsObject(node) /\ \E i \in 1..Len(node.items) : node.items[i].k = key
  THEN node.items[CHOOSE i \in 1..Len(node.items) :
                    /\ node.items[i].k = key
                    /\ \A j \in 1..(i - 1) : node.items[j].k # key].v
  ELSE JMissing

\* gjson Result.Bool().
TruthyStrings == {"1", "t", "T", "TRUE", "true", "True"}
Bool(node) ==
  CASE node.type = "True" -> TRUE
    [] node.type = "String" -> node.str \in TruthyStrings
    [] node.type = "Number" -> node.str \notin {"0", "0.0"}
    [] OTHER -> FALSE

\* strings.TrimSpace on the keys that occur in the model.
BlankStrings == {"", " "}
TrimSpace(s) == IF s \in BlankStrings THEN "" ELSE s

\* strings.Join over a sequence of strings.
RECURSIVE JoinStr(_, _)
JoinStr(strs, sep) ==
  IF strs = <<>> THEN ""
  ELSE IF Len(strs) = 1 THEN strs[1]
  ELSE strs[1] \o sep \o JoinStr(Tail(strs), sep)

\* --------------------------------------------------------------- inspector
OpAnd == "_and"
OpOr == "_or"
OpNot == "_not"
KeyWhere == "where"
logicalOperators == {OpAnd, OpOr, OpNot}

\* Keys whose first byte is '_' (key[0] == '_').
UnderscoreKeys ==
  logicalOperators \cup
  {"_eq", "_neq", "_gt", "_lt", "_gte", "_lte", "_in", "_nin", "_is_null",
   "_like", "_nlike", "_ilike", "_nilike", "_regex", "_bad"}
StartsWithUnderscore(key) == key \in UnderscoreKeys

\* One event of the hook contract.
Event(ev, field, operator, value, src, path) ==
  [ev |-> ev, field |-> field, operator |-> operator, value |-> value,
   src |-> src, path |-> path]

\* Outcome of a walk: the notifications it makes, in order, and the error
\* the inspector itself raises after them ("" is nil).
Walk(events, err) == [events |-> events, err |-> err]

buildPath(path, element) ==
  IF TrimSpace(element) # "" THEN Append(path, TrimSpace(element)) ELSE path

getStrPath(src, path) == JoinStr(<<src>> \o path, ".")

RECURSIVE processWhereNode(_, _, _)
RECURSIVE whereRange(_, _, _, _)
RECURSIVE whereForEach(_, _, _, _)

\* A previousPath that keeps the last segment: the compared field stays in
\* the path handed to the hooks.
untrimmedPath(path) == path

\* previousPath: the path without its last segment.
trimmedPath(path) ==
  IF Len(path) > 0 THEN buildPath(SubSeq(path, 1, Len(path) - 1), "") ELSE path

\* A shorthand with no null case: every non-object value is compared by _eq.
sugarAlwaysEq(key, value, path) ==
  Event("Comparison", key, "_eq", value, "", path)

\* A sugar that takes an array value for a list to match with _in.
sugarArrayAsList(key, value, path) ==
  IF value.type = "Null"
  THEN Event("Comparison", key, "_is_null", JStr("true"), "", path)
  ELSE IF IsArray(value) THEN Event("Comparison", key, "_in", value, "", path)
  ELSE Event("Comparison", key, "_eq", value, "", path)

\* The comparison notified for a key whose value is no object.
sugarComparison(key, value, path) ==
  IF value.type = "Null"
  THEN Event("Comparison", key, "_is_null", JStr("true"), "", path)
  ELSE Event("Comparison", key, "_eq", value, "", path)

\* The body of the ForEach callback of processWhereNode for one (key, value).
whereKey(field, key, value, path) ==
  IF TrimSpace(key) = ""
  THEN Walk(<<>>, "empty key found in path: " \o getStrPath(KeyWhere, path))
  ELSE IF StartsWithUnderscore(key)
  THEN LET previousPath == trimmedPath(path)
       IN IF key \in logicalOperators
          THEN LET start == Event("LogicalGroupStart", "", key, JNull, "", path)
                   end == Event("LogicalGroupEnd", "", key, JNull, "", path)
                   sub == processWhereNode(field, value, previousPath)
               IN IF sub.err # ""
                  THEN Walk(<<start>> \o sub.events, sub.err)
                  ELSE Walk(<<start>> \o sub.events \o <<end>>, "")
          ELSE Walk(<<Event("Comparison", field, key, value, "", previousPath)>>, "")
  ELSE IF IsObject(value)
  THEN LET start == Event("NestedNodeStart", key, "", value, KeyWhere, path)
           end == Event("NestedNodeEnd", key, "", value, KeyWhere, path)
           nestedPath == buildPath(path, key)
           sub == processWhereNode(key, value, nestedPath)
       IN IF sub.err # ""
          THEN Walk(<<start>> \o sub.events, sub.err)
          ELSE Walk(<<start>> \o sub.events \o <<end>>, "")
  ELSE Walk(<<sugarComparison(key, value, path)>>, "")

\* node.ForEach: the entries from the i-th on, stopping at the first error.
whereForEach(field, entries, i, path) ==
  IF i > Len(entries) THEN Walk(<<>>, "")
  ELSE LET r == whereKey(field, entries[i].k, entries[i].v, path)
       IN IF r.err # "" THEN r
          ELSE LET rest == whereForEach(field, entries, i + 1, path)
               IN Walk(r.events \o rest.events, rest.err)

\* for _, child := range node.Array(): returns at the first error.
whereRange(field, elems, i, path) ==
  IF i > Len(elems) THEN Walk(<<>>, "")
  ELSE LET r == processWhereNode(field, elems[i], path)
       IN IF r.err # "" THEN r
          ELSE LET rest == whereRange(field, elems, i + 1, path)
               IN Walk(r.events \o rest.events, rest.err)

processWhereNode(field, node, path) ==
  IF IsArray(node) THEN whereRange(field, node.items, 1, path)
  ELSE IF ~IsObject(node)
  THEN Walk(<<>>, "invalid filter node: " \o getStrPath(KeyWhere, path))
  ELSE whereForEach(field, node.items, 1, path)

\* ---------------------------------------------- inspector: other sections
KeyOrderBy == "order_by"
KeyAggregate == "aggregate"
DirAsc == "ASC"
DirDesc == "DESC"

\* gjson Result.Str: the string of a String value, empty for any other type.
Str(node) == IF node.type = "String" THEN node.str ELSE ""

\* gjson Result.String(): the text of a scalar, empty for null and for a
\* value that does not exist.
String(node) ==
  CASE node.type \in {"String", "Number", "True", "False"} -> node.str
    [] node.type \in {"Null", "Missing"} -> ""
    [] OTHER -> ToString(node.items)

\* An OnOrderBy notification: the operator slot holds the direction.
OrderByEvent(field, direction, path) ==
  Event("OrderBy", field, direction, JNull, KeyOrderBy, path)

\* An OnAggregateField notification: the operator slot holds the function,
\* the value slot the options.
AggregateEvent(function, field, options) ==
  Event("AggregateField", field, function, options, KeyAggregate, <<>>)

\* strings.ToUpper(strings.TrimSpace(str)) on the directions that occur in
\* the model.
UpperTrimmed ==
  ("asc" :> "ASC") @@ ("ASC" :> "ASC") @@ ("desc" :> "DESC") @@
  ("DESC" :> "DESC") @@ (" Desc " :> "DESC") @@ ("up" :> "UP") @@ ("" :> "")

\* A direction check that neither trims nor upper-cases.
getOrderDirectionExact(str) ==
  IF str \in {"ASC", "DESC"} THEN [direction |-> str, err |-> ""]
  ELSE [direction |-> "", err |-> "invalid order_by direction: " \o str]

\* The direction and the error ("" is nil).
getOrderDirection(str) ==
  IF UpperTrimmed[str] = DirAsc THEN [direction |-> DirAsc, err |-> ""]
  ELSE IF UpperTrimmed[str] = DirDesc THEN [direction |-> DirDesc, err |-> ""]
  ELSE [direction |-> "", err |-> "invalid order_by direction: " \o str]

RECURSIVE processOrderByNode(_, _, _)
RECURSIVE orderByRange(_, _, _, _)
RECURSIVE orderByForEach(_, _, _, _)

\* The body of the ForEach callback of processOrderByNode for one (key, value).
orderByKey(key, value, path) ==
  IF TrimSpace(key) = ""
  THEN Walk(<<>>, "empty key found in path: " \o getStrPath(KeyOrderBy, path))
  ELSE IF IsObject(value)
  THEN LET start == Event("NestedNodeStart", key, "", value, KeyOrderBy, path)
           end == Event("NestedNodeEnd", key, "", value, KeyOrderBy, path)
           sub == processOrderByNode(key, value, buildPath(path, key))
       IN IF sub.err # ""
          THEN Walk(<<start>> \o sub.events, sub.err)
          ELSE Walk(<<start>> \o sub.events \o <<end>>, "")
  ELSE LET d == getOrderDirection(Str(value))
       IN IF d.err # "" THEN Walk(<<>>, d.err)
          ELSE Walk(<<OrderByEvent(key, d.direction, path)>>, "")

orderByForEach(field, entries, i, path) ==
  IF i > Len(entries) THEN Walk(<<>>, "")
  ELSE LET r == orderByKey(entries[i].k, entries[i].v, path)
       IN IF r.err # "" THEN r
          ELSE LET rest == orderByForEach(field, entries, i + 1, path)
               IN Walk(r.events \o rest.events, rest.err)

orderByRange(field, elems, i, path) ==
  IF i > Len(elems) THEN Walk(<<>>, "")
  ELSE LET r == processOrderByNode(field, elems[i], path)
       IN IF r.err # "" THEN r
          ELSE LET rest == orderByRange(field, elems, i + 1, path)
               IN Walk(r.events \o rest.events, rest.err)

processOrderByNode(field, node, path) ==
  IF IsArray(node) THEN orderByRange(field, node.items, 1, path)
  ELSE IF ~IsObject(node)
  THEN Walk(<<>>, "invalid order_by node: " \o getStrPath(KeyOrderBy, path))
  ELSE orderByForEach(field, node.items, 1, path)

\* The fields and the options of an aggregate value; nil tells that fields
\* is the nil slice, returned for a value of no accepted form.
Parsed(fields, options) == [nil |-> FALSE, fields |-> fields, options |-> options]
NoFields == [nil |-> TRUE, fields |-> <<>>, options |-> JMissing]

\* A parse that keeps the first field name of an array only.
parseAggregateValueFirstOnly(value) ==
  IF value.type = "String" THEN Parsed(<<String(value)>>, JMissing)
  ELSE IF IsArray(value)
  THEN IF Len(value.items) = 0 \/ \E j \in 1..Len(value.items) : value.items[j].type # "String"
       THEN NoFields
       ELSE Parsed(<<String(value.items[1])>>, JMissing)
  ELSE IF IsObject(value)
  THEN LET field == String(Get(value, "field"))
       IN Parsed(<<IF field = "" THEN "*" ELSE field>>, value)
  ELSE NoFields

parseAggregateValue(value) ==
  IF value.type = "String" THEN Parsed(<<String(value)>>, JMissing)
  ELSE IF IsArray(value)
  THEN IF Len(value.items) = 0 \/ \E j \in 1..Len(value.items) : value.items[j].type # "String"
       THEN NoFields
       ELSE Parsed([j \in 1..Len(value.items) |-> String(value.items[j])], JMissing)
  ELSE IF IsObject(value)
  THEN LET field == String(Get(value, "field"))
       IN Parsed(<<IF field = "" THEN "*" ELSE field>>, value)
  ELSE NoFields

\* A callback that passes over a blank function name instead of failing.
aggregateKeySkipBlank(aggregateFn, value) ==
  IF TrimSpace(aggregateFn) = "" THEN Walk(<<>>, "")
  ELSE LET p == parseAggregateValue(value)
       IN IF p.nil
          THEN Walk(<<>>, "invalid value for aggregate function " \o aggregateFn)
          ELSE Walk([j \in 1..Len(p.fields) |->
                       AggregateEvent(aggregateFn, p.fields[j], p.options)], "")

\* The body of the ForEach callback of processAggregateNode for one (k, value).
aggregateKey(aggregateFn, value) ==
  IF TrimSpace(aggregateFn) = "" THEN Walk(<<>>, "empty aggregate function name")
  ELSE LET p == parseAggregateValue(value)
       IN IF p.nil
          THEN Walk(<<>>, "invalid value for aggregate function " \o aggregateFn)
          ELSE Walk([j \in 1..Len(p.fields) |->
                       AggregateEvent(aggregateFn, p.fields[j], p.options)], "")

RECURSIVE aggregateForEach(_, _)
aggregateForEach(entries, i) ==
  IF i > Len(entries) THEN Walk(<<>>, "")
  ELSE LET r == aggregateKey(entries[i].k, entries[i].v)
       IN IF r.err # "" THEN r
          ELSE LET rest == aggregateForEach(entries, i + 1)
               IN Walk(r.events \o rest.events, rest.err)

processAggregateNode(node) ==
  IF ~IsObject(node) THEN Walk(<<>>, "invalid aggregate node: must be an object")
  ELSE aggregateForEach(node.items, 1)

\* ---------------------------------------------------------------- SQL hook
DefaultOperatorMap ==
  ("_eq" :> "=") @@ ("_neq" :> "!=") @@ ("_gt" :> ">") @@ ("_lt" :> "<") @@
  ("_gte" :> ">=") @@ ("_lte" :> "<=") @@ ("_in" :> "IN") @@
  ("_nin" :> "NOT IN") @@ ("_is_null" :> "IS NULL") @@ ("_like" :> "LIKE") @@
  ("_nlike" :> "NOT LIKE") @@ ("_ilike" :> "ILIKE") @@
  ("_nilike" :> "NOT ILIKE")

postgresOperatorMap ==
  DefaultOperatorMap @@ ("_similar" :> "SIMILAR TO") @@
  ("_nsimilar" :> "NOT SIMILAR TO") @@ ("_regex" :> "~") @@
  ("_nregex" :> "!~") @@ ("_iregex" :> "~*") @@ ("_niregex" :> "!~*") @@
  ("_contains" :> "@>") @@ ("_contained_in" :> "<@") @@ ("_has_key" :> "?") @@
  ("_has_keys_any" :> "?|") @@ ("_has_keys_all" :> "?&") @@
  ("_nt_contains" :> ">>=") @@ ("_nt_contained" :> "<<=")

DefaultAggregateFnMap ==
  ("count" :> "COUNT") @@ ("sum" :> "SUM") @@ ("avg" :> "AVG") @@
  ("max" :> "MAX") @@ ("min" :> "MIN") @@ ("stddev" :> "STDDEV") @@
  ("variance" :> "VARIANCE")

postgresAggregateFnMap ==
  DefaultAggregateFnMap @@ ("stddev_pop" :> "STDDEV_POP") @@
  ("stddev_samp" :> "STDDEV_SAMP") @@ ("var_pop" :> "VAR_POP") @@
  ("var_samp" :> "VAR_SAMP") @@ ("array_agg" :> "ARRAY_AGG") @@
  ("json_agg" :> "JSON_AGG") @@ ("jsonb_agg" :> "JSONB_AGG") @@
  ("string_agg" :> "STRING_AGG") @@ ("bool_and" :> "BOOL_AND") @@
  ("bool_or" :> "BOOL_OR") @@ ("corr" :> "CORR") @@
  ("percentile_cont" :> "PERCENTILE_CONT") @@
  ("percentile_disc" :> "PERCENTILE_DISC")

DefaultNameDelimiter == "\""

NewDefaultSQLParserHookConfig ==
  [OperatorMap |-> DefaultOperatorMap, AggregateFnMap |-> DefaultAggregateFnMap,
   NameDelimiter |-> DefaultNameDelimiter]

NewParseHookConfig ==
  [OperatorMap |-> postgresOperatorMap, AggregateFnMap |-> postgresAggregateFnMap,
   NameDelimiter |-> DefaultNameDelimiter]

\* A ParseHookConfig the caller fills in for a dialect without list
\* operators: the default operators but _in and _nin.
CallerOperatorMap ==
  [op \in DOMAIN DefaultOperatorMap \ {"_in", "_nin"} |-> DefaultOperatorMap[op]]

CallerParseHookConfig ==
  [OperatorMap |-> CallerOperatorMap, AggregateFnMap |-> DefaultAggregateFnMap,
   NameDelimiter |-> DefaultNameDelimiter]

\* The configurations in memory; a *ParseHookConfig is a key of this table.
ParseHookConfigs ==
  ("postgres" :> NewParseHookConfig) @@ ("sql" :> NewDefaultSQLParserHookConfig) @@
  ("caller" :> CallerParseHookConfig)

opAND == "AND"
opOR == "OR"
opNOT == "NOT"

\* A LogicalGroup; NilGroup stands for the nil pointer.
LogicalGroup(operator) == [operator |-> operator, operations |-> <<>>]
NilGroup == [operator |-> "nil", operations |-> <<>>]

\* A *int: nil, or a pointer to n.
NilInt == [nil |-> TRUE, v |-> 0]
IntPtr(n) == [nil |-> FALSE, v |-> n]

\* CurrentGroup points into LogicalStack: the index of the group, 0 for nil.
\* Config points to a configuration. Limit and Offset are left nil.
NewSQLFilter(config) ==
  [Conditions |-> <<>>, Params |-> <<>>, ParamIndex |-> 1,
   LogicalStack |-> <<>>, CurrentGroup |-> 0, OrderBy |-> <<>>,
   Aggregates |-> [alias \in {} |-> <<>>], AggregatesSlice |-> <<>>,
   Config |-> config, Limit |-> NilInt, Offset |-> NilInt]

\* Numbers whose int64 value equals their float64 value.
IntegralNumbers == {"0", "1", "18", "20"}

\* h.Config dereferenced.
Config(h) == ParseHookConfigs[h.Config]

DefaultConvertValueFn(value) ==
  CASE value.type = "Number" ->
         IF value.str \in IntegralNumbers
         THEN [go |-> "int64", v |-> value.str]
         ELSE [go |-> "float64", v |-> value.str]
    [] value.type = "String" -> [go |-> "string", v |-> value.str]
    [] value.type = "True" -> [go |-> "bool", v |-> "true"]
    [] value.type = "False" -> [go |-> "bool", v |-> "false"]
    [] value.type = "Null" -> [go |-> "nil", v |-> ""]
    [] value.type = "Object" -> [go |-> "string", v |-> ToString(value.items)]
    [] OTHER -> [go |-> "[]interface {}", v |-> ToString(value.items)]

convertValue(h, value) == DefaultConvertValueFn(value)

getOperator(h, op) ==
  IF op \in DOMAIN Config(h).OperatorMap THEN Config(h).OperatorMap[op] ELSE ""

getColumnAlias(h, field, path) ==
  LET d == Config(h).NameDelimiter
      quoted == d \o TrimSpace(field) \o d
      fullPath == JoinStr(path, "__")
  IN IF fullPath # "" THEN d \o fullPath \o d \o "." \o quoted ELSE quoted

\* fmt.Sprintf("$%d", n)
Placeholder(n) == "$" \o ToString(n)

\* strings.Join over rendered texts: the separator is one token.
RECURSIVE JoinTok(_, _)
JoinTok(texts, sep) ==
  IF texts = <<>> THEN <<>>
  ELSE IF Len(texts) = 1 THEN texts[1]
  ELSE texts[1] \o <<sep>> \o JoinTok(Tail(texts), sep)

addCondition(h, condition) ==
  IF h.CurrentGroup # 0
  THEN [h EXCEPT !.LogicalStack[h.CurrentGroup].operations = Append(@, condition)]
  ELSE [h EXCEPT !.Conditions = Append(@, condition)]

pushLogicalGroup(h, operator) ==
  [h EXCEPT !.LogicalStack = Append(@, LogicalGroup(operator)),
            !.CurrentGroup = Len(h.LogicalStack) + 1]

\* A pop that sets the current group to nil whatever is left on the stack.
popLogicalGroupToNil(h) ==
  IF \/ Len(h.LogicalStack) = 0
     \/ h.CurrentGroup = 0
     \/ Len(h.LogicalStack[h.CurrentGroup].operations) = 0
  THEN [h |-> h, pop |-> NilGroup]
  ELSE LET n == Len(h.LogicalStack) IN
       [h |-> [h EXCEPT !.LogicalStack = SubSeq(@, 1, n - 1), !.CurrentGroup = 0],
        pop |-> h.LogicalStack[n]]

\* Returns the hook after the pop and the popped group (NilGroup for nil).
popLogicalGroup(h) ==
  IF \/ Len(h.LogicalStack) = 0
     \/ h.CurrentGroup = 0
     \/ Len(h.LogicalStack[h.CurrentGroup].operations) = 0
  THEN [h |-> h, pop |-> NilGroup]
  ELSE LET n == Len(h.LogicalStack) IN
       [h |-> [h EXCEPT !.LogicalStack = SubSeq(@, 1, n - 1),
                        !.CurrentGroup = IF n - 1 > 0 THEN n - 1 ELSE 0],
        pop |-> h.LogicalStack[n]]

\* An _in/_nin loop that binds the elements but numbers them all with the
\* placeholder counter it started with, advancing it once.
bindValuesOneIndex(h, values, i) ==
  [h |-> [h EXCEPT !.Params = @ \o [k \in 1..Len(values) |-> convertValue(h, values[k])],
                   !.ParamIndex = @ + 1],
   placeholders |-> [k \in 1..Len(values) |-> <<Placeholder(h.ParamIndex)>>]]

\* An _in/_nin loop that binds the elements and leaves the placeholder
\* counter where it was.
bindValuesUncounted(h, values, i) ==
  [h |-> [h EXCEPT !.Params = @ \o [k \in 1..Len(values) |-> convertValue(h, values[k])]],
   placeholders |-> [k \in 1..Len(values) |-> <<Placeholder(h.ParamIndex + k - 1)>>]]

\* The _in/_nin loop: binds the elements from the i-th on.
RECURSIVE bindValues(_, _, _)
bindValues(h, values, i) ==
  IF i > Len(values) THEN [h |-> h, placeholders |-> <<>>]
  ELSE LET bound == [h EXCEPT !.Params = Append(@, convertValue(h, values[i])),
                              !.ParamIndex = @ + 1]
           rest == bindValues(bound, values, i + 1)
       IN [h |-> rest.h,
           placeholders |-> <<<<Placeholder(h.ParamIndex)>>>> \o rest.placeholders]

\* An _is_null rendered as a bound comparison instead of a null test.
nullCheckBound(alias, value) ==
  IF Bool(value) THEN <<alias, "=", Placeholder(1)>>
  ELSE <<alias, "<>", Placeholder(1)>>

\* The condition rendered for _is_null.
nullCheck(alias, value) ==
  IF Bool(value) THEN <<alias, "IS NULL">> ELSE <<alias, "IS NOT NULL">>

\* A hook method's outcome: the hook after the call and the error returned.
Ret(h, err) == [h |-> h, err |-> err]

\* An _in/_nin case that takes a value that is no array as a list of one,
\* as value.Array() would.
inListUnchecked(h, alias, operator, value) ==
  LET values == IF IsArray(value) THEN value.items ELSE <<value>>
      b == bindValues(h, values, 1)
      sqlOp == getOperator(h, operator)
  IN Ret(addCondition(b.h, <<alias, sqlOp, "(">> \o
                           JoinTok(b.placeholders, ",") \o <<")">>), "")

\* The case "_in", "_nin" of OnComparison.
inList(h, alias, operator, value) ==
  IF ~IsArray(value)
  THEN Ret(h, "array value expected, got " \o TypeName(value))
  ELSE LET b == bindValues(h, value.items, 1)
           sqlOp == getOperator(h, operator)
       IN Ret(addCondition(b.h, <<alias, sqlOp, "(">> \o
                                JoinTok(b.placeholders, ",") \o <<")">>), "")

OnComparison(h, field, operator, value, path) ==
  LET alias == getColumnAlias(h, field, path) IN
  IF operator = "_is_null"
  THEN Ret(addCondition(h, nullCheck(alias, value)), "")
  ELSE IF operator \in {"_in", "_nin"}
  THEN inList(h, alias, operator, value)
  ELSE IF getOperator(h, operator) # ""
  THEN LET sqlOp == getOperator(h, operator)
           bound == [h EXCEPT !.Params = Append(@, convertValue(h, value))]
           added == addCondition(bound, <<alias, sqlOp, Placeholder(h.ParamIndex)>>)
       IN Ret([added EXCEPT !.ParamIndex = @ + 1], "")
  ELSE Ret(h, "unsupported operator: " \o operator)

OnNestedNodeStart(h, field, node, src, path) == h

OnNestedNodeEnd(h, field, node, src, path) == h

OnLogicalGroupStart(h, operator, path) ==
  CASE operator = "_and" -> Ret(pushLogicalGroup(h, opAND), "")
    [] operator = "_or" -> Ret(pushLogicalGroup(h, opOR), "")
    [] operator = "_not" -> Ret(pushLogicalGroup(h, opNOT), "")
    [] OTHER -> Ret(h, "unsupported logical operator: " \o operator)

\* A group rendering that joins a NOT group with its own operator and
\* parenthesizes every group.
groupConditionPlain(group) ==
  LET joined == <<"(">> \o JoinTok(group.operations, group.operator) \o <<")">>
  IN IF group.operator = opNOT THEN <<"NOT">> \o joined ELSE joined

\* A group rendering that never parenthesizes.
groupConditionBare(group) ==
  LET joinOp == IF group.operator # opNOT THEN group.operator ELSE opAND
      joined == JoinTok(group.operations, joinOp)
  IN IF group.operator = opNOT THEN <<"NOT">> \o joined ELSE joined

\* The condition OnLogicalGroupEnd renders for a popped group.
groupCondition(group) ==
  LET joinOp == IF group.operator # opNOT THEN group.operator ELSE opAND
      joined == JoinTok(group.operations, joinOp)
      wrapped == IF Len(group.operations) > 1
                 THEN <<"(">> \o joined \o <<")">> ELSE joined
  IN IF group.operator = opNOT THEN <<"NOT">> \o wrapped ELSE wrapped

OnLogicalGroupEnd(h, operator, path) ==
  LET p == popLogicalGroup(h)
      group == p.pop
  IN IF group = NilGroup THEN p.h
     ELSE addCondition(p.h, groupCondition(group))

\* An OnOrderBy that leaves the relations out of the column name.
OnOrderByUnqualified(h, field, direction, path) ==
  [h EXCEPT !.OrderBy = Append(@, <<getColumnAlias(h, field, <<>>), direction>>)]

OnOrderBy(h, field, direction, path) ==
  [h EXCEPT !.OrderBy = Append(@, <<getColumnAlias(h, field, path), direction>>)]

\* A lookup that takes an unknown name for the SQL function itself.
getAggregateFunctionAsIs(h, fn) ==
  IF fn \in DOMAIN Config(h).AggregateFnMap THEN Config(h).AggregateFnMap[fn] ELSE fn

getAggregateFunction(h, fn) ==
  IF fn \in DOMAIN Config(h).AggregateFnMap THEN Config(h).AggregateFnMap[fn] ELSE ""

\* strings.ReplaceAll(field, ".", "_") on the field names that occur in the
\* model.
DotsReplaced == ("u.a" :> "u_a")
ReplaceDots(field) == IF field \in DOMAIN DotsReplaced THEN DotsReplaced[field] ELSE field

\* A builder that never reads the distinct option.
DefaultAggregateBuilderPlain(h, function, sqlFunction, field, options) ==
  LET fieldAlias == IF field # "*" THEN getColumnAlias(h, field, <<>>) ELSE "*"
      resultAlias == IF field # "*" THEN function \o "_" \o ReplaceDots(field)
                     ELSE function
  IN [expr |-> <<sqlFunction, "(", fieldAlias, ")">>, alias |-> resultAlias, err |-> ""]

\* A builder that leaves the distinct option out when the field is *.
DefaultAggregateBuilderLenient(h, function, sqlFunction, field, options) ==
  LET hasDistinct == Exists(options) /\ Bool(Get(options, "distinct")) /\ field # "*"
      distinct == IF hasDistinct THEN <<"DISTINCT">> ELSE <<>>
      fieldAlias == IF field # "*" THEN getColumnAlias(h, field, <<>>) ELSE "*"
      resultAlias == IF field # "*" THEN function \o "_" \o ReplaceDots(field)
                     ELSE function
  IN [expr |-> <<sqlFunction, "(">> \o distinct \o <<fieldAlias, ")">>,
      alias |-> resultAlias, err |-> ""]

\* The expression, the result alias and the error ("" is nil).
DefaultAggregateBuilder(h, function, sqlFunction, field, options) ==
  LET hasDistinct == Exists(options) /\ Bool(Get(options, "distinct"))
      distinct == IF hasDistinct THEN <<"DISTINCT">> ELSE <<>>
      fieldAlias == IF field # "*" THEN getColumnAlias(h, field, <<>>) ELSE "*"
      resultAlias == IF field # "*" THEN function \o "_" \o ReplaceDots(field)
                     ELSE function
  IN IF hasDistinct /\ field = "*"
     THEN [expr |-> <<>>, alias |-> "",
           err |-> "DISTINCT can only be used with specific fields, not '*'"]
     ELSE [expr |-> <<sqlFunction, "(">> \o distinct \o <<fieldAlias, ")">>,
           alias |-> resultAlias, err |-> ""]

OnAggregateField(h, function, field, options) ==
  LET sqlFn == getAggregateFunction(h, function) IN
  IF sqlFn = "" THEN Ret(h, "unsupported aggregate function: " \o function)
  ELSE LET b == DefaultAggregateBuilder(h, function, sqlFn, field, options) IN
       IF b.err # "" THEN Ret(h, b.err)
       ELSE Ret([h EXCEPT !.Aggregates = (b.alias :> b.expr) @@ @,
                          !.AggregatesSlice = Append(@, b.alias)], "")

OnLimit(h, limit) == [h EXCEPT !.Limit = IntPtr(limit)]

OnOffset(h, offset) == [h EXCEPT !.Offset = IntPtr(offset)]

GetQueryBuilder(h) ==
  [Aggregates |-> h.Aggregates, AggregatesSlice |-> h.AggregatesSlice,
   Conditions |-> h.Conditions, OrderBy |-> h.OrderBy,
   Limit |-> h.Limit, Offset |-> h.Offset, Params |-> h.Params]

\* A loop that lists the aggregates last stored first.
selectedAggregatesReversed(q) ==
  LET n == Len(q.AggregatesSlice) IN
  IF DOMAIN q.Aggregates # {}
  THEN [k \in 1..n |->
          q.Aggregates[q.AggregatesSlice[n + 1 - k]] \o <<"AS", q.AggregatesSlice[n + 1 - k]>>]
  ELSE <<>>

\* The loop of Build over AggregatesSlice: expr + " AS " + alias of each.
selectedAggregates(q) ==
  IF DOMAIN q.Aggregates # {}
  THEN [k \in 1..Len(q.AggregatesSlice) |->
          q.Aggregates[q.AggregatesSlice[k]] \o <<"AS", q.AggregatesSlice[k]>>]
  ELSE <<>>

\* The select list of Build: the aggregates, then the explicit columns, *
\* when there is neither. A column name is one token.
selectedColumns(q, columns) ==
  LET selected == selectedAggregates(q) \o [k \in 1..Len(columns) |-> <<columns[k]>>]
  IN IF selected = <<>> THEN <<<<"*">>>> ELSE selected

whereClause(q) ==
  IF q.Conditions # <<>> THEN <<"WHERE">> \o JoinTok(q.Conditions, "AND") ELSE <<>>

\* A GROUP BY clause written whenever there are explicit columns.
groupByClauseOfColumns(q, columns) ==
  IF columns # <<>>
  THEN <<"GROUP BY">> \o JoinTok([k \in 1..Len(columns) |-> <<columns[k]>>], ",")
  ELSE <<>>

groupByClause(q, columns) ==
  IF DOMAIN q.Aggregates # {} /\ columns # <<>>
  THEN <<"GROUP BY">> \o JoinTok([k \in 1..Len(columns) |-> <<columns[k]>>], ",")
  ELSE <<>>

orderByClause(q) ==
  IF q.OrderBy # <<>> THEN <<"ORDER BY">> \o JoinTok(q.OrderBy, ",") ELSE <<>>

limitClause(q) == IF ~q.Limit.nil THEN <<"LIMIT", ToString(q.Limit.v)>> ELSE <<>>

offsetClause(q) == IF ~q.Offset.nil THEN <<"OFFSET", ToString(q.Offset.v)>> ELSE <<>>

\* A Build that writes ORDER BY before GROUP BY.
BuildOrderFirst(q, entity, columns) ==
  <<"SELECT">> \o JoinTok(selectedColumns(q, columns), ",") \o <<"FROM", entity>>
    \o whereClause(q) \o orderByClause(q) \o groupByClause(q, columns)
    \o limitClause(q) \o offsetClause(q)

\* SQLQueryBuilder.Build: the query text, token by token.
Build(q, entity, columns) ==
  <<"SELECT">> \o JoinTok(selectedColumns(q, columns), ",") \o <<"FROM", entity>>
    \o whereClause(q) \o groupByClause(q, columns) \o orderByClause(q)
    \o limitClause(q) \o offsetClause(q)

\* ------------------------------------------------------- inspector fan-out
\* The hooks registered with Inspect, in registration order.
RegisteredHooks ==
  <<NewSQLFilter("postgres"), NewSQLFilter("sql")>>

\* One hook method call made by the inspector.
Call(i, e) == [hook |-> i, e |-> e]

\* Outcome of a notifier: the hooks after it, the calls it made, its error.
Notified(hs, made, err) == [hooks |-> hs, made |-> made, err |-> err]

\* for _, hook := range hooks, from the i-th hook on.
RECURSIVE rangeComparison(_, _, _)
rangeComparison(hs, i, e) ==
  IF i > Len(hs) THEN Notified(hs, <<>>, "")
  ELSE LET r == OnComparison(hs[i], e.field, e.operator, e.value, e.path)
           after == [hs EXCEPT ![i] = r.h]
       IN IF r.err # "" THEN Notified(after, <<Call(i, e)>>, r.err)
          ELSE LET rest == rangeComparison(after, i + 1, e)
               IN Notified(rest.hooks, <<Call(i, e)>> \o rest.made, rest.err)

\* A notifier that calls the first registered hook only.
notifyComparisonFirstOnly(hs, e) ==
  LET r == OnComparison(hs[1], e.field, e.operator, e.value, e.path)
  IN Notified([hs EXCEPT ![1] = r.h], <<Call(1, e)>>, r.err)

\* A notifier that calls every hook, whatever the earlier ones returned, and
\* returns the first error.
notifyComparisonEveryHook(hs, e) ==
  LET r == [i \in 1..Len(hs) |-> OnComparison(hs[i], e.field, e.operator, e.value, e.path)]
      errs == SelectSeq([i \in 1..Len(hs) |-> r[i].err], LAMBDA x : x # "")
  IN Notified([i \in 1..Len(hs) |-> r[i].h], [i \in 1..Len(hs) |-> Call(i, e)],
              IF errs = <<>> THEN "" ELSE errs[1])

notifyComparison(hs, e) == rangeComparison(hs, 1, e)

RECURSIVE rangeLogicalGroupStart(_, _, _)
rangeLogicalGroupStart(hs, i, e) ==
  IF i > Len(hs) THEN Notified(hs, <<>>, "")
  ELSE LET r == OnLogicalGroupStart(hs[i], e.operator, e.path)
           after == [hs EXCEPT ![i] = r.h]
       IN IF r.err # "" THEN Notified(after, <<Call(i, e)>>, r.err)
          ELSE LET rest == rangeLogicalGroupStart(after, i + 1, e)
               IN Notified(rest.hooks, <<Call(i, e)>> \o rest.made, rest.err)

notifyLogicalGroupStart(hs, e) == rangeLogicalGroupStart(hs, 1, e)

\* A notifier that calls no hook: the end of a group goes unannounced.
notifyLogicalGroupEndSkipped(hs, e) == Notified(hs, <<>>, "")

notifyLogicalGroupEnd(hs, e) ==
  Notified([i \in 1..Len(hs) |-> OnLogicalGroupEnd(hs[i], e.operator, e.path)],
           [i \in 1..Len(hs) |-> Call(i, e)], "")

notifyNestedNodeStart(hs, e) ==
  Notified([i \in 1..Len(hs) |-> OnNestedNodeStart(hs[i], e.field, e.value, e.src, e.path)],
           [i \in 1..Len(hs) |-> Call(i, e)], "")

notifyNestedNodeEnd(hs, e) ==
  Notified([i \in 1..Len(hs) |-> OnNestedNodeEnd(hs[i], e.field, e.value, e.src, e.path)],
           [i \in 1..Len(hs) |-> Call(i, e)], "")

notifyOnOrderBy(hs, e) ==
  Notified([i \in 1..Len(hs) |-> OnOrderBy(hs[i], e.field, e.operator, e.path)],
           [i \in 1..Len(hs) |-> Call(i, e)], "")

RECURSIVE rangeAggregateField(_, _, _)
rangeAggregateField(hs, i, e) ==
  IF i > Len(hs) THEN Notified(hs, <<>>, "")
  ELSE LET r == OnAggregateField(hs[i], e.operator, e.field, e.value)
           after == [hs EXCEPT ![i] = r.h]
       IN IF r.err # "" THEN Notified(after, <<Call(i, e)>>, r.err)
          ELSE LET rest == rangeAggregateField(after, i + 1, e)
               IN Notified(rest.hooks, <<Call(i, e)>> \o rest.made, rest.err)

notifyAggregateField(hs, e) == rangeAggregateField(hs, 1, e)

\* ------------------------------------------------------------ input filters
FieldNames == {"a", "u"}

\* Entries whose value holds no further key.
LeafEntries ==
  {KV("a", JNum("18")), KV("a", JNull), KV("_gt", JNum("18")),
   KV("_is_null", JTrue), KV("_is_null", JFalse),
   KV("_in", JArr(<<JNum("18"), JNum("20")>>)), KV("_bad", JNum("18")),
   KV(" ", JNum("18"))}

\* Below, objs[k + 1] is the set of the entry lists of the objects that hold
\* exactly k keys in all; it is built for k = 0, 1, ... in turn.

\* Arrays of len non-empty objects that hold exactly m keys in all.
RECURSIVE ElemSeqs(_, _, _)
ElemSeqs(objs, m, len) ==
  IF len = 0 THEN (IF m = 0 THEN {<<>>} ELSE {})
  ELSE UNION {{<<JObj(o)>> \o rest : o \in objs[first + 1],
                                     rest \in ElemSeqs(objs, m - first, len - 1)} :
              first \in 1..m}

\* Entries whose value is an object or an array holding m keys in all.
NestedEntries(objs, m) ==
  {KV(f, JObj(o)) : f \in FieldNames, o \in objs[m + 1]} \cup
  {KV(l, JObj(o)) : l \in {OpNot}, o \in objs[m + 1]} \cup
  {KV(l, JArr(es)) : l \in {OpAnd, OpOr},
                     es \in UNION {ElemSeqs(objs, m, len) : len \in 0..MaxElems}}

EntriesOfSize(objs, m) ==
  IF m = 0 THEN LeafEntries \cup NestedEntries(objs, 0) ELSE NestedEntries(objs, m)

\* The entry lists with exactly n keys: a first entry, then the other entries.
ObjsOfSize(objs, n) ==
  IF n = 0 THEN {<<>>}
  ELSE UNION {{<<e>> \o rest : e \in EntriesOfSize(objs, m), rest \in objs[n - m]} :
              m \in 0..(n - 1)}

RECURSIVE ObjsUpTo(_, _)
ObjsUpTo(objs, n) ==
  IF n > MaxKeys - 1 THEN objs
  ELSE ObjsUpTo(Append(objs, ObjsOfSize(objs, n)), n + 1)

\* Objs[k + 1] for k < MaxKeys: what an entry or the rest of an object holds.
Objs == ObjsUpTo(<<>>, 0)

\* filterJSON is {"where": {...}} with n keys in the where tree: a first entry
\* holding m keys below it, then the other entries.
IsWhereOfSize(filter, n) ==
  IF n = 0 THEN filter = JObj(<<KV(KeyWhere, JObj(<<>>))>>)
  ELSE \E m \in 0..(n - 1) :
         \E e \in EntriesOfSize(Objs, m), rest \in Objs[n - m] :
           filter = JObj(<<KV(KeyWhere, JObj(<<e>> \o rest))>>)

\* Filters with the other sections: a where section of at most one key, an
\* aggregate section and an order_by section, each present or not.
SmallWheres ==
  {JMissing, JObj(<<KV("a", JNum("18"))>>), JObj(<<KV("_bad", JNum("18"))>>),
   JObj(<<KV(" ", JNum("18"))>>)}

AggregateNodes ==
  {JMissing, JNum("18"),
   JObj(<<KV("count", JStr("*"))>>),
   JObj(<<KV("sum", JArr(<<JStr("a"), JStr("u.a")>>))>>),
   JObj(<<KV("sum", JArr(<<>>))>>),
   JObj(<<KV("sum", JArr(<<JStr("a"), JNum("18")>>))>>),
   JObj(<<KV("count", JObj(<<KV("field", JStr("a")), KV("distinct", JTrue)>>))>>),
   JObj(<<KV("count", JObj(<<KV("distinct", JTrue)>>))>>),
   JObj(<<KV("count", JObj(<<>>))>>),
   JObj(<<KV("bool_and", JStr("a"))>>),
   JObj(<<KV("median", JStr("a"))>>),
   JObj(<<KV(" ", JStr("a"))>>),
   JObj(<<KV("count", JStr("*")), KV("sum", JStr("a"))>>),
   JObj(<<KV("sum", JStr("a")), KV("bool_and", JStr("a")), KV("count", JStr("*"))>>),
   JObj(<<KV("sum", JStr("a")), KV("sum", JStr("a"))>>)}

OrderByNodes ==
  {JMissing, JNum("18"), JArr(<<>>),
   JObj(<<KV("a", JStr("asc"))>>),
   JObj(<<KV("a", JStr("up"))>>),
   JObj(<<KV("a", JNum("18"))>>),
   JObj(<<KV(" ", JStr("asc"))>>),
   JObj(<<KV("u", JObj(<<KV(" ", JStr("asc"))>>))>>),
   JArr(<<JObj(<<KV("a", JStr("asc"))>>), JNum("18")>>),
   JObj(<<KV("u", JObj(<<KV("a", JStr("DESC"))>>))>>),
   JObj(<<KV("u", JObj(<<KV("u", JObj(<<KV("a", JStr("ASC"))>>))>>))>>),
   JObj(<<KV("a", JStr("desc")), KV("u", JObj(<<KV("a", JStr("up"))>>))>>),
   JArr(<<JObj(<<KV("a", JStr("asc"))>>),
          JObj(<<KV("u", JObj(<<KV("a", JStr(" Desc "))>>))>>)>>)}

\* The entry of a section of the filter, if the section is there.
Section(key, node) == IF Exists(node) THEN <<KV(key, node)>> ELSE <<>>

\* The sections are written in the order where, aggregate, order_by or in
\* the reverse order.
IsSectionsFilter(filter) ==
  \E where \in SmallWheres, aggregate \in AggregateNodes, orderBy \in OrderByNodes :
    /\ ~(~Exists(aggregate) /\ ~Exists(orderBy))
    /\ \E reversed \in BOOLEAN :
         filter = IF reversed
                  THEN JObj(Section(KeyOrderBy, orderBy) \o Section(KeyAggregate, aggregate)
                              \o Section(KeyWhere, where))
                  ELSE JObj(Section(KeyWhere, where) \o Section(KeyAggregate, aggregate)
                              \o Section(KeyOrderBy, orderBy))

\* Where trees of particular shapes: values that are neither object nor
\* array where one is required, operators one dialect lacks, _in and _nin
\* over arrays of several lengths and over values that are no array, logical
\* operators inside the object of a field that lies in a relation, groups
\* written as objects and groups beside and inside other groups, fields
\* whose value is an array.
ExtraWheres ==
  {JStr("x"), JArr(<<JNum("18")>>), JArr(<<>>),
   JArr(<<JObj(<<KV("a", JNum("18"))>>), JObj(<<KV("u", JNull)>>)>>),
   JObj(<<KV("_and", JNum("18"))>>),
   JObj(<<KV("_not", JStr("x"))>>),
   JObj(<<KV("a", JNum("18")), KV("_or", JArr(<<JObj(<<KV("u", JNull)>>), JNum("18")>>))>>),
   JObj(<<KV("u", JObj(<<KV("_not", JNum("18"))>>))>>),
   JObj(<<KV("u", JObj(<<KV("a", JObj(<<KV("_or", JTrue)>>))>>))>>),
   JObj(<<KV("u", JObj(<<KV("u", JObj(<<KV(" ", JNum("18"))>>))>>))>>),
   JObj(<<KV("u", JObj(<<KV("_and", JArr(<<JObj(<<KV("", JNum("18"))>>)>>))>>))>>),
   JObj(<<KV("a", JObj(<<KV("_regex", JStr("x"))>>))>>),
   JObj(<<KV("a", JNum("18")), KV("u", JObj(<<KV("a", JObj(<<KV("_regex", JStr("x"))>>))>>)),
          KV("a", JNull)>>),
   JObj(<<KV("a", JObj(<<KV("_in", JNum("18"))>>))>>),
   JObj(<<KV("a", JNum("18")), KV("_or", JArr(<<JObj(<<KV("a", JObj(<<KV("_nin", JObj(<<>>))>>))>>)>>))>>),
   JObj(<<KV("a", JObj(<<KV("_nin", JStr("x"))>>))>>),
   JObj(<<KV("a", JObj(<<KV("_in", JArr(<<>>))>>))>>),
   JObj(<<KV("a", JNum("18")),
          KV("u", JObj(<<KV("a", JObj(<<KV("_nin", JArr(<<JNum("1"), JStr("x"), JNull>>))>>))>>)),
          KV("a", JObj(<<KV("_in", JArr(<<JNum("20")>>))>>))>>),
   JObj(<<KV("u", JObj(<<KV("a", JObj(<<KV("_or", JArr(<<JObj(<<KV("_gt", JNum("18"))>>),
                                                       JObj(<<KV("_lt", JNum("20"))>>)>>))>>))>>))>>),
   JObj(<<KV("u", JObj(<<KV("u", JObj(<<KV("a", JObj(<<KV("_not",
            JObj(<<KV("_gt", JNum("18"))>>))>>))>>))>>))>>),
   JObj(<<KV("_and", JArr(<<
            JObj(<<KV("_or", JArr(<<JObj(<<KV("age", JObj(<<KV("_gt", JNum("18"))>>))>>),
                                    JObj(<<KV("name", JObj(<<KV("_eq", JStr("John"))>>))>>)>>))>>),
            JObj(<<KV("_not", JObj(<<KV("_and", JArr(<<
                     JObj(<<KV("age", JObj(<<KV("_gt", JNum("18"))>>))>>),
                     JObj(<<KV("name", JObj(<<KV("_like", JStr("%John%"))>>))>>)>>))>>))>>)>>))>>),
   JObj(<<KV("name", JStr("jose")),
          KV("_or", JObj(<<KV("age", JObj(<<KV("_gt", JNum("18"))>>)),
                           KV("_not", JObj(<<KV("role", JObj(<<KV("name", JNull)>>))>>))>>)),
          KV("_not", JObj(<<KV("age", JObj(<<KV("_gt", JNum("18"))>>)),
                            KV("role", JStr("admin"))>>))>>),
   JObj(<<KV("_or", JArr(<<JObj(<<KV("a", JNum("18"))>>),
                           JObj(<<KV("_and", JArr(<<JObj(<<KV("u", JNum("1"))>>)>>)),
                                  KV("u", JNull)>>)>>)),
          KV("_not", JObj(<<KV("_or", JObj(<<KV("a", JNum("1")), KV("u", JNum("20"))>>))>>)),
          KV("a", JObj(<<KV("_in", JArr(<<JNum("1"), JNum("20")>>))>>))>>),
   JObj(<<KV("a", JArr(<<JNum("1"), JNum("20")>>))>>),
   JObj(<<KV("u", JObj(<<KV("a", JArr(<<JObj(<<KV("u", JNum("1"))>>)>>)),
                         KV("u", JArr(<<>>))>>)),
          KV("a", JNum("18"))>>),
   JObj(<<KV("_or", JArr(<<JObj(<<KV("a", JArr(<<JStr("x")>>))>>),
                           JObj(<<KV("u", JNum("1"))>>)>>))>>)}

IsExtraFilter(filter) == \E where \in ExtraWheres : filter = JObj(<<KV(KeyWhere, where)>>)

\* Aggregate sections of particular shapes: options objects whose field is
\* empty, null, a number or absent, several functions of the three value
\* forms, an empty field name, a field with dots, a function one dialect lacks
\* after functions both have.
ExtraAggregates ==
  {JObj(<<KV("count", JObj(<<KV("field", JStr(""))>>))>>),
   JObj(<<KV("count", JObj(<<KV("field", JNull), KV("distinct", JTrue)>>))>>),
   JObj(<<KV("sum", JObj(<<KV("field", JNum("18"))>>))>>),
   JObj(<<KV("sum", JStr(""))>>),
   JObj(<<KV("count", JObj(<<KV("distinct", JFalse)>>)),
          KV("sum", JArr(<<JStr("a"), JStr("u")>>)),
          KV("max", JStr("a")),
          KV("min", JObj(<<KV("field", JStr("a")), KV("distinct", JFalse)>>))>>),
   JObj(<<KV("max", JArr(<<JStr("u"), JStr("a"), JStr("u.a")>>)),
          KV("count", JObj(<<KV("field", JStr("u.a")), KV("distinct", JStr("true"))>>))>>),
   JObj(<<KV("sum", JArr(<<JStr("u.a"), JStr("u_a")>>))>>),
   JObj(<<KV("count", JStr("a")),
          KV("count", JObj(<<KV("field", JStr("a")), KV("distinct", JTrue)>>))>>),
   JObj(<<KV("sum", JStr("a")), KV("bool_or", JArr(<<JStr("a"), JStr("u")>>)),
          KV("count", JStr("*"))>>),
   JObj(<<KV("sum", JStr("a")), KV("", JStr("a")), KV("count", JStr("*"))>>),
   JObj(<<KV("sum", JStr("a")), KV("count", JNum("18")), KV("max", JStr("a"))>>),
   JArr(<<>>), JArr(<<JObj(<<KV("count", JStr("*"))>>)>>), JStr("count"), JNull}

IsAggregateFilter(filter) ==
  \E aggregate \in ExtraAggregates, ordered \in BOOLEAN :
    filter = JObj(<<KV(KeyAggregate, aggregate)>> \o
                  (IF ordered THEN <<KV(KeyOrderBy, JObj(<<KV("a", JStr("asc"))>>))>>
                   ELSE <<>>))

\* Filters that carry the pagination fields limit and offset at top level.
PaginatedFilters ==
  {JObj(<<KV(KeyWhere, JObj(<<KV("a", JObj(<<KV("_eq", JStr("x"))>>))>>)),
          KV(KeyOrderBy, JObj(<<KV("a", JStr("desc"))>>)),
          KV("limit", JNum("10")), KV("offset", JNum("20"))>>),
   JObj(<<KV("limit", JNum("10")), KV("offset", JNum("20"))>>),
   JObj(<<KV("limit", JNum("10")), KV(KeyWhere, JObj(<<KV("a", JNum("18"))>>))>>),
   JObj(<<KV(KeyAggregate, JObj(<<KV("count", JStr("*"))>>)), KV("offset", JNum("20"))>>)}

\* Filters with a condition, and with a list, a group and an order-by entry:
\* the ones a caller gives to a second Inspect with the hooks of a first.
SecondFilters ==
  {JObj(<<KV(KeyWhere, JObj(<<KV("a", JNum("18"))>>))>>),
   JObj(<<KV(KeyWhere,
             JObj(<<KV("a", JObj(<<KV("_in", JArr(<<JNum("1"), JNum("2")>>))>>)),
                    KV("_or", JArr(<<JObj(<<KV("u", JStr("x"))>>),
                                     JObj(<<KV("a", JNum("18"))>>)>>))>>)),
          KV(KeyOrderBy, JObj(<<KV("u", JStr("desc"))>>))>>)}

\* ------------------------------------------------------------ state machine
VARIABLES
  filterJSON,  \* the filter given to Inspect
  pc,          \* where Inspect stands: "start", then each section walked
               \* ("where", "aggregate", "order_by") and left, then "done"
  pending,     \* notifications the walk of the current section still makes
  walkErr,     \* error the walk raises after them ("" when none)
  hooks,       \* the registered hooks' states
  calls,       \* hook method calls made so far, in order
  err          \* error returned by Inspect ("" is nil)

vars == <<filterJSON, pc, pending, walkErr, hooks, calls, err>>

Init ==
  /\ \/ filterJSON = JObj(<<>>)
     \/ filterJSON = JObj(<<KV(KeyWhere, JNum("18"))>>)
     \/ \E n \in 0..MaxKeys : IsWhereOfSize(filterJSON, n)
     \/ IsSectionsFilter(filterJSON)
     \/ IsExtraFilter(filterJSON)
     \/ IsAggregateFilter(filterJSON)
     \/ filterJSON \in PaginatedFilters
  /\ pc = "start"
  /\ pending = <<>>
  /\ walkErr = ""
  /\ hooks = RegisteredHooks
  /\ calls = <<>>
  /\ err = ""

\* The same filters given to Inspect with one hook, made by NewSQLFilter from
\* the caller's configuration.
CallerHooks == <<NewSQLFilter("caller")>>

InitCaller ==
  /\ \/ filterJSON = JObj(<<>>)
     \/ filterJSON = JObj(<<KV(KeyWhere, JNum("18"))>>)
     \/ \E n \in 0..MaxKeys : IsWhereOfSize(filterJSON, n)
     \/ IsSectionsFilter(filterJSON)
     \/ IsExtraFilter(filterJSON)
     \/ IsAggregateFilter(filterJSON)
     \/ filterJSON \in PaginatedFilters
  /\ pc = "start"
  /\ pending = <<>>
  /\ walkErr = ""
  /\ hooks = CallerHooks
  /\ calls = <<>>
  /\ err = ""

\* Inspect, where section: walk it if present.
InspectWhere ==
  /\ pc = "start"
  /\ LET where == Get(filterJSON, KeyWhere) IN
     IF Exists(where)
     THEN LET w == processWhereNode("", where, <<>>) IN
          /\ pending' = w.events
          /\ walkErr' = w.err
          /\ pc' = "where"
     ELSE /\ pc' = "whereDone"
          /\ UNCHANGED <<pending, walkErr>>
  /\ UNCHANGED <<filterJSON, hooks, calls, err>>

\* A run that records a hook error and goes on to the next notification.
DeliverAndContinue(r) ==
  /\ hooks' = r.hooks
  /\ calls' = calls \o r.made
  /\ err' = IF r.err # "" THEN r.err ELSE err
  /\ pending' = Tail(pending)
  /\ UNCHANGED <<filterJSON, pc, walkErr>>

\* The effect of one notifier on the run: a hook error aborts Inspect.
Deliver(r) ==
  /\ hooks' = r.hooks
  /\ calls' = calls \o r.made
  /\ IF r.err # ""
     THEN /\ err' = r.err
          /\ pc' = "done"
          /\ pending' = <<>>
          /\ walkErr' = ""
     ELSE /\ pending' = Tail(pending)
          /\ UNCHANGED <<pc, err, walkErr>>
  /\ UNCHANGED filterJSON

\* The sections whose walk is under way.
Walking == {"where", "aggregate", "order_by"}

NextIs(kind) == pc \in Walking /\ pending # <<>> /\ Head(pending).ev = kind

NotifyComparison ==
  /\ NextIs("Comparison")
  /\ Deliver(notifyComparison(hooks, Head(pending)))

NotifyLogicalGroupStart ==
  /\ NextIs("LogicalGroupStart")
  /\ Deliver(notifyLogicalGroupStart(hooks, Head(pending)))

NotifyLogicalGroupEnd ==
  /\ NextIs("LogicalGroupEnd")
  /\ Deliver(notifyLogicalGroupEnd(hooks, Head(pending)))

NotifyNestedNodeStart ==
  /\ NextIs("NestedNodeStart")
  /\ Deliver(notifyNestedNodeStart(hooks, Head(pending)))

NotifyNestedNodeEnd ==
  /\ NextIs("NestedNodeEnd")
  /\ Deliver(notifyNestedNodeEnd(hooks, Head(pending)))

NotifyOnOrderBy ==
  /\ NextIs("OrderBy")
  /\ Deliver(notifyOnOrderBy(hooks, Head(pending)))

NotifyAggregateField ==
  /\ NextIs("AggregateField")
  /\ Deliver(notifyAggregateField(hooks, Head(pending)))

\* A section's walk returns: its error, if any, is returned by Inspect.
WalkReturns(section, after) ==
  /\ pc = section
  /\ pending = <<>>
  /\ IF walkErr # ""
     THEN /\ err' = walkErr
          /\ pc' = "done"
     ELSE /\ pc' = after
          /\ UNCHANGED err
  /\ walkErr' = ""
  /\ UNCHANGED <<filterJSON, pending, hooks, calls>>

WhereReturns == WalkReturns("where", "whereDone")

\* An Inspect that walks the order_by section where the aggregate section is
\* due, before walking it again in its own turn.
InspectOrderByEarly ==
  /\ pc = "whereDone"
  /\ LET orderBy == Get(filterJSON, KeyOrderBy) IN
     IF Exists(orderBy)
     THEN LET w == processOrderByNode("", orderBy, <<>>) IN
          /\ pending' = w.events
          /\ walkErr' = w.err
          /\ pc' = "aggregate"
     ELSE /\ pc' = "aggregateDone"
          /\ UNCHANGED <<pending, walkErr>>
  /\ UNCHANGED <<filterJSON, hooks, calls, err>>

\* Inspect, aggregate section: walk it if present.
InspectAggregate ==
  /\ pc = "whereDone"
  /\ LET aggregate == Get(filterJSON, KeyAggregate) IN
     IF Exists(aggregate)
     THEN LET w == processAggregateNode(aggregate) IN
          /\ pending' = w.events
          /\ walkErr' = w.err
          /\ pc' = "aggregate"
     ELSE /\ pc' = "aggregateDone"
          /\ UNCHANGED <<pending, walkErr>>
  /\ UNCHANGED <<filterJSON, hooks, calls, err>>

AggregateReturns == WalkReturns("aggregate", "aggregateDone")

\* Inspect, order_by section: walk it if present, else return nil.
InspectOrderBy ==
  /\ pc = "aggregateDone"
  /\ LET orderBy == Get(filterJSON, KeyOrderBy) IN
     IF Exists(orderBy)
     THEN LET w == processOrderByNode("", orderBy, <<>>) IN
          /\ pending' = w.events
          /\ walkErr' = w.err
          /\ pc' = "order_by"
     ELSE /\ pc' = "done"
          /\ UNCHANGED <<pending, walkErr>>
  /\ UNCHANGED <<filterJSON, hooks, calls, err>>

\* processOrderByNode returns, and Inspect with it.
OrderByReturns == WalkReturns("order_by", "done")

Next ==
  \/ InspectWhere
  \/ NotifyComparison
  \/ NotifyLogicalGroupStart
  \/ NotifyLogicalGroupEnd
  \/ NotifyNestedNodeStart
  \/ NotifyNestedNodeEnd
  \/ WhereReturns
  \/ InspectAggregate
  \/ NotifyAggregateField
  \/ AggregateReturns
  \/ InspectOrderBy
  \/ NotifyOnOrderBy
  \/ OrderByReturns

Spec == Init /\ [][Next]_vars

SpecCaller == InitCaller /\ [][Next]_vars

\* A caller that, once Inspect has returned, sets the pagination of the
\* hooks through OnLimit and OnOffset before it builds the query.
Limits == {0, 10}
Offsets == {0, 20}

InitBuild ==
  /\ \/ IsSectionsFilter(filterJSON)
     \/ IsExtraFilter(filterJSON)
     \/ IsAggregateFilter(filterJSON)
     \/ filterJSON \in PaginatedFilters
     \/ filterJSON \in SecondFilters
  /\ pc = "start"
  /\ pending = <<>>
  /\ walkErr = ""
  /\ hooks = RegisteredHooks
  /\ calls = <<>>
  /\ err = ""

CallerOnLimit ==
  /\ pc = "done"
  /\ \A i \in 1..Len(hooks) : hooks[i].Limit.nil
  /\ \E limit \in Limits : hooks' = [i \in 1..Len(hooks) |-> OnLimit(hooks[i], limit)]
  /\ UNCHANGED <<filterJSON, pc, pending, walkErr, calls, err>>

CallerOnOffset ==
  /\ pc = "done"
  /\ \A i \in 1..Len(hooks) : hooks[i].Offset.nil
  /\ \E offset \in Offsets : hooks' = [i \in 1..Len(hooks) |-> OnOffset(hooks[i], offset)]
  /\ UNCHANGED <<filterJSON, pc, pending, walkErr, calls, err>>

NextBuild ==
  \/ Next
  \/ CallerOnLimit
  \/ CallerOnOffset

SpecBuild == InitBuild /\ [][NextBuild]_vars

\* ------------------------------------------------------------ a whole run
\* The notifier the walk calls for an event.
notify(hs, e) ==
  CASE e.ev = "Comparison" -> notifyComparison(hs, e)
    [] e.ev = "LogicalGroupStart" -> notifyLogicalGroupStart(hs, e)
    [] e.ev = "LogicalGroupEnd" -> notifyLogicalGroupEnd(hs, e)
    [] e.ev = "NestedNodeStart" -> notifyNestedNodeStart(hs, e)
    [] e.ev = "NestedNodeEnd" -> notifyNestedNodeEnd(hs, e)
    [] e.ev = "OrderBy" -> notifyOnOrderBy(hs, e)
    [] OTHER -> notifyAggregateField(hs, e)

\* The walk's notifications one after the other, up to the first hook error.
RECURSIVE notifyEach(_, _)
notifyEach(hs, events) ==
  IF events = <<>> THEN Notified(hs, <<>>, "")
  ELSE LET r == notify(hs, Head(events)) IN
       IF r.err # "" THEN r
       ELSE LET rest == notifyEach(r.hooks, Tail(events))
            IN Notified(rest.hooks, r.made \o rest.made, rest.err)

\* One section of Inspect after the run so far: skipped if the run has
\* returned an error or the section is not there, else walked.
InspectSection(sofar, node, walk) ==
  IF sofar.err # "" \/ ~Exists(node) THEN sofar
  ELSE LET r == notifyEach(sofar.hooks, walk.events)
       IN Notified(r.hooks, sofar.made \o r.made,
                   IF r.err # "" THEN r.err ELSE walk.err)

\* Inspect(filter, hs...) from call to return: the hooks after it, the calls
\* made and its error.
Inspect(filter, hs) ==
  LET where == Get(filter, KeyWhere)
      aggregate == Get(filter, KeyAggregate)
      orderBy == Get(filter, KeyOrderBy)
      w == InspectSection(Notified(hs, <<>>, ""), where,
                          processWhereNode("", where, <<>>))
      a == InspectSection(w, aggregate, processAggregateNode(aggregate))
  IN InspectSection(a, orderBy, processOrderByNode("", orderBy, <<>>))

\* strings.Join(qb.Conditions, " AND "): the final WHERE text of a hook.
WhereText(h) == JoinTok(h.Conditions, "AND")

\* strings.Join(h.OrderBy, ", "): the ORDER BY text of a hook.
OrderByText(h) == JoinTok(h.OrderBy, ",")

\* ------------------------------------------------------------------ claims
Returned == pc = "done"
Succeeded == pc = "done" /\ err = ""
HookIds == 1..Len(hooks)

\* The calls of one kind made to hook i so far, in order.
CallsTo(i, kind) == SelectSeq(calls, LAMBDA c : c.hook = i /\ c.e.ev = kind)

\* The positional placeholders of a text of hook h, left to right.
Placeholders(text, h) ==
  SelectSeq(text, LAMBDA t : \E n \in 1..h.ParamIndex : t = Placeholder(n))

\* C1: after an Inspect that returns no error, the placeholders of the final
\* WHERE text of every hook, read left to right, are exactly $1 .. $len(Params).
C1_PlaceholdersMatchParams ==
  Succeeded =>
    \A i \in HookIds :
      Placeholders(WhereText(hooks[i]), hooks[i]) =
        [n \in 1..Len(hooks[i].Params) |-> Placeholder(n)]

\* A value under a logical operator that holds no comparison: only logical
\* operators, down to empty objects and arrays.
RECURSIVE HoldsNoComparison(_)
HoldsNoComparison(node) ==
  /\ node.type \in {"Object", "Array"}
  /\ \A j \in 1..Len(node.items) :
       IF IsArray(node) THEN HoldsNoComparison(node.items[j])
       ELSE /\ node.items[j].k \in logicalOperators
            /\ HoldsNoComparison(node.items[j].v)

IsEmptyGroup(entry) == entry.k \in logicalOperators /\ HoldsNoComparison(entry.v)

\* The filter without its empty logical groups.
RECURSIVE WithoutEmptyGroups(_)
WithoutEmptyGroups(node) ==
  IF IsArray(node)
  THEN JArr([j \in 1..Len(node.items) |-> WithoutEmptyGroups(node.items[j])])
  ELSE IF IsObject(node)
  THEN LET kept == SelectSeq(node.items, LAMBDA entry : ~IsEmptyGroup(entry))
       IN JObj([j \in 1..Len(kept) |-> KV(kept[j].k, WithoutEmptyGroups(kept[j].v))])
  ELSE node

HasEmptyGroup(node) == WithoutEmptyGroups(node) # node

\* The filter with its where section, if it has one, replaced.
WithWhere(filter, where) ==
  JObj([j \in 1..Len(filter.items) |->
          IF filter.items[j].k = KeyWhere THEN KV(KeyWhere, where)
          ELSE filter.items[j]])

\* What a caller reads off a hook: the WHERE text and the parameter list.
Output(h) == [where |-> WhereText(h), params |-> h.Params]
Outputs(hs) == [i \in 1..Len(hs) |-> Output(hs[i])]

\* C2: a filter yields the same WHERE text and parameters as the same filter
\* without its empty logical groups.
C2_EmptyGroupsContributeNothing ==
  Succeeded =>
    LET where == Get(filterJSON, KeyWhere)
        bare == Inspect(WithWhere(filterJSON, WithoutEmptyGroups(where)),
                        RegisteredHooks)
    IN bare.err = "" /\ Outputs(hooks) = Outputs(bare.hooks)

\* C3: after an Inspect that returns no error the logical stack of every hook
\* is empty: every group pushed by a Start was popped by its End.
C3_StackEmptyAfterInspect ==
  Succeeded => \A i \in HookIds : hooks[i].LogicalStack = <<>>

\* The comparisons of a where tree in source order, each with its field and
\* the relations that enclose the field: keys lists the non-operator keys with
\* object values above the node, outermost first.
RECURSIVE EnclosedComparisons(_, _, _)
EnclosedComparisons(node, j, keys) ==
  IF node.type \notin {"Object", "Array"} \/ j > Len(node.items) THEN <<>>
  ELSE LET item == node.items[j]
           here ==
             IF IsArray(node) THEN EnclosedComparisons(item, 1, keys)
             ELSE IF item.k \in logicalOperators
             THEN EnclosedComparisons(item.v, 1, keys)
             ELSE IF StartsWithUnderscore(item.k)
             THEN IF keys = <<>> THEN <<[field |-> "", relations |-> <<>>]>>
                  ELSE <<[field |-> keys[Len(keys)],
                          relations |-> SubSeq(keys, 1, Len(keys) - 1)]>>
             ELSE IF IsObject(item.v)
             THEN EnclosedComparisons(item.v, 1, Append(keys, item.k))
             ELSE <<[field |-> item.k, relations |-> keys]>>
       IN here \o EnclosedComparisons(node, j + 1, keys)

WhereComparisons == EnclosedComparisons(Get(filterJSON, KeyWhere), 1, <<>>)

\* s from its i-th element on is a subsequence of t from its j-th on.
RECURSIVE IsSubSeq(_, _, _, _)
IsSubSeq(s, i, t, j) ==
  IF i > Len(s) THEN TRUE
  ELSE IF j > Len(t) THEN FALSE
  ELSE IF s[i] = t[j] THEN IsSubSeq(s, i + 1, t, j + 1)
  ELSE IsSubSeq(s, i, t, j + 1)

\* C4: the path given to OnComparison is the list of the relations that
\* enclose the compared field, whatever logical groups lie in between.
C4_PathIsEnclosingRelations ==
  \A i \in HookIds :
    LET cs == CallsTo(i, "Comparison") IN
    \A k \in 1..Len(cs) :
      /\ k <= Len(WhereComparisons)
      /\ cs[k].e.field = WhereComparisons[k].field
      /\ cs[k].e.path = WhereComparisons[k].relations

\* C5: the path of a Comparison never includes the compared column: it holds
\* only relations that enclose the field, outermost first.  Stated of every
\* OnComparison call made by the time Inspect returns.
C5_PathHoldsOnlyEnclosingRelations ==
  Returned =>
    \A i \in HookIds :
      LET cs == CallsTo(i, "Comparison")
          enclosed == WhereComparisons
      IN \A k \in 1..Len(cs) :
           /\ k <= Len(enclosed)
           /\ cs[k].e.field = enclosed[k].field
           /\ IsSubSeq(cs[k].e.path, 1, enclosed[k].relations, 1)

\* A comparison written with an operator object inside a relation was notified.
C5_Witness ==
  \E k \in 1..Len(calls) :
    /\ calls[k].e.ev = "Comparison"
    /\ calls[k].e.operator = "_gt"
    /\ calls[k].e.field = "a"
    /\ calls[k].e.path = <<"u">>

\* The values a comparison binds, converted, in order.
BoundBy(h, e) ==
  IF e.operator = "_is_null" THEN <<>>
  ELSE IF e.operator \in {"_in", "_nin"}
  THEN [j \in 1..Len(e.value.items) |-> convertValue(h, e.value.items[j])]
  ELSE <<convertValue(h, e.value)>>

RECURSIVE BoundByAll(_, _)
BoundByAll(h, cs) ==
  IF cs = <<>> THEN <<>> ELSE BoundBy(h, cs[1].e) \o BoundByAll(h, Tail(cs))

\* C6: after an Inspect that returns no error, the columns of the final WHERE
\* text are those of the Comparison events, one each and in the same order,
\* and so are the parameters.
C6_EveryComparisonRenderedInOrder ==
  Succeeded =>
    \A i \in HookIds :
      LET h == hooks[i]
          cs == CallsTo(i, "Comparison")
          columns == [k \in 1..Len(cs) |-> getColumnAlias(h, cs[k].e.field, cs[k].e.path)]
      IN /\ SelectSeq(WhereText(h), LAMBDA t : \E k \in 1..Len(cs) : t = columns[k]) = columns
         /\ h.Params = BoundByAll(h, cs)

\* The list a hook appends its next condition to: the operations of the
\* innermost open group, or the top-level conditions.
OpenList(h) ==
  IF h.LogicalStack # <<>> THEN h.LogicalStack[Len(h.LogicalStack)].operations
  ELSE h.Conditions

\* A closed group as the claim words it.
ClosedGroupText(group) ==
  LET k == Len(group.operations)
      sep == IF group.operator = "NOT" THEN "AND" ELSE group.operator
      body == JoinTok(group.operations, sep)
      inner == IF k > 1 THEN <<"(">> \o body \o <<")">> ELSE body
  IN IF group.operator = "NOT" THEN <<"NOT">> \o inner ELSE inner

\* C7: when OnLogicalGroupEnd finds a top group with k >= 1 operations, the
\* group is popped and its text (operations joined by its operator, AND for
\* NOT; parentheses iff k > 1; NOT prefix iff NOT) is appended as one
\* operation to the enclosing group, or to the conditions if none is open.
C7_ClosedGroupRendering ==
  [][NextIs("LogicalGroupEnd") =>
       \A i \in HookIds :
         LET h == hooks[i]
             n == Len(h.LogicalStack)
         IN (n > 0 /\ Len(h.LogicalStack[n].operations) >= 1) =>
              LET below == [h EXCEPT !.LogicalStack = SubSeq(@, 1, n - 1)] IN
              /\ Len(hooks'[i].LogicalStack) = n - 1
              /\ OpenList(hooks'[i]) =
                   Append(OpenList(below), ClosedGroupText(h.LogicalStack[n]))
              /\ n > 1 => hooks'[i].Conditions = h.Conditions]_vars

\* A NOT group of two operations was closed at the top level.
C7_Witness ==
  \E k \in 1..Len(hooks[1].Conditions) :
    LET text == hooks[1].Conditions[k]
    IN Len(text) > 2 /\ text[1] = "NOT" /\ text[2] = "(" /\ "AND" \in {text[m] : m \in 1..Len(text)}

\* A scalar or null value written for a field, and its operator form.
IsSugar(entry) ==
  /\ ~StartsWithUnderscore(entry.k)
  /\ TrimSpace(entry.k) # ""
  /\ entry.v.type \in {"Null", "True", "False", "Number", "String"}

Desugared(entry) ==
  KV(entry.k, JObj(<<IF entry.v.type = "Null" THEN KV("_is_null", JTrue)
                      ELSE KV("_eq", entry.v)>>))

\* The value of the entry is walked as a part of the where tree: the value
\* of a logical operator, or an object written for a non-operator key.
IsWalked(entry) ==
  \/ entry.k \in logicalOperators
  \/ ~StartsWithUnderscore(entry.k) /\ IsObject(entry.v)

\* The trees got from a where tree by rewriting one sugar entry.
RECURSIVE OneDesugared(_)
OneDesugared(node) ==
  IF node.type \notin {"Object", "Array"} THEN {}
  ELSE UNION {
         LET item == node.items[j] IN
         IF IsArray(node)
         THEN {[node EXCEPT !.items[j] = v] : v \in OneDesugared(item)}
         ELSE (IF IsSugar(item) THEN {[node EXCEPT !.items[j] = Desugared(item)]} ELSE {})
              \cup (IF IsWalked(item)
                    THEN {[node EXCEPT !.items[j].v = v] : v \in OneDesugared(item.v)}
                    ELSE {})
         : j \in 1..Len(node.items)}

\* The tree got by rewriting every sugar entry.
RECURSIVE AllDesugared(_)
AllDesugared(node) ==
  IF node.type \notin {"Object", "Array"} THEN node
  ELSE [node EXCEPT !.items =
          [j \in 1..Len(node.items) |->
             IF IsArray(node) THEN AllDesugared(node.items[j])
             ELSE IF IsSugar(node.items[j]) THEN Desugared(node.items[j])
             ELSE IF IsWalked(node.items[j])
             THEN KV(node.items[j].k, AllDesugared(node.items[j].v))
             ELSE node.items[j]]]

\* The where trees got from the filter's by rewriting one or all of its
\* sugar entries.
DesugaredWheres ==
  LET where == Get(filterJSON, KeyWhere)
  IN IF IsObject(where)
     THEN (OneDesugared(where) \cup {AllDesugared(where)}) \ {where}
     ELSE {}

\* C8: writing "f": v as "f": {"_eq": v} and "f": null as
\* "f": {"_is_null": true}, at any place of the where tree, leaves the WHERE
\* text and the parameters as they are.
C8_SugarEquivalence ==
  Returned =>
    \A where \in DesugaredWheres :
      Outputs(Inspect(WithWhere(filterJSON, where), RegisteredHooks).hooks)
        = Outputs(hooks)

\* Inspect succeeded on a filter with both kinds of sugar below a relation or
\* a group.
C8_Witness ==
  /\ Succeeded
  /\ Cardinality(DesugaredWheres) >= 3
  /\ \E k \in 1..Len(calls) :
       calls[k].e.ev = "Comparison" /\ calls[k].e.value = JStr("true")
  /\ \E k \in 1..Len(calls) :
       calls[k].e.ev = "Comparison" /\ calls[k].e.operator = "_eq"
                                    /\ calls[k].e.path # <<>>

\* C9: an _is_null comparison appends `col IS NULL` for true and
\* `col IS NOT NULL` for false, and leaves the parameter list and the
\* placeholder counter unchanged.
C9_IsNullBindsNothing ==
  [][(NextIs("Comparison") /\ Head(pending).operator = "_is_null") =>
       \A i \in HookIds :
         LET h == hooks[i]
             e == Head(pending)
             col == getColumnAlias(h, e.field, e.path)
         IN /\ hooks'[i].Params = h.Params
            /\ hooks'[i].ParamIndex = h.ParamIndex
            /\ e.value \in {JTrue, JStr("true")} =>
                 OpenList(hooks'[i]) = Append(OpenList(h), <<col, "IS NULL">>)
            /\ e.value = JFalse =>
                 OpenList(hooks'[i]) = Append(OpenList(h), <<col, "IS NOT NULL">>)]_vars

\* Both renderings were produced after a parameter had been bound.
C9_Witness ==
  /\ hooks[1].Params # <<>>
  /\ \E k \in 1..Len(hooks[1].Conditions) : hooks[1].Conditions[k][2] = "IS NOT NULL"
  /\ \E k \in 1..Len(hooks[1].Conditions) : hooks[1].Conditions[k][2] = "IS NULL"
  /\ \E k \in 1..Len(calls) : calls[k].e.operator = "_is_null" /\ calls[k].e.value = JTrue

\* The error hook i returns for an event ("" when it accepts it).
HookError(i, e) ==
  LET known == DOMAIN Config(RegisteredHooks[i]).OperatorMap IN
  IF e.ev = "AggregateField"
  THEN OnAggregateField(RegisteredHooks[i], e.operator, e.field, e.value).err
  ELSE IF e.ev # "Comparison" \/ e.operator = "_is_null" THEN ""
  ELSE IF e.operator \in {"_in", "_nin"}
  THEN IF e.value.type = "Array" THEN ""
       ELSE "array value expected, got " \o TypeName(e.value)
  ELSE IF e.operator \in known THEN ""
  ELSE "unsupported operator: " \o e.operator

\* The hooks after the given calls, each made on its hook and none undone.
ApplyCall(h, e) ==
  CASE e.ev = "Comparison" -> OnComparison(h, e.field, e.operator, e.value, e.path).h
    [] e.ev = "LogicalGroupStart" -> OnLogicalGroupStart(h, e.operator, e.path).h
    [] e.ev = "LogicalGroupEnd" -> OnLogicalGroupEnd(h, e.operator, e.path)
    [] e.ev = "OrderBy" -> OnOrderBy(h, e.field, e.operator, e.path)
    [] e.ev = "AggregateField" -> OnAggregateField(h, e.operator, e.field, e.value).h
    [] OTHER -> h

RECURSIVE AfterCalls(_, _)
AfterCalls(hs, cs) ==
  IF cs = <<>> THEN hs
  ELSE AfterCalls([hs EXCEPT ![cs[1].hook] = ApplyCall(@, cs[1].e)], Tail(cs))

\* The errors the inspector itself raises on the sections of the filter, in
\* the order Inspect walks them.
InspectorErrors ==
  LET where == Get(filterJSON, KeyWhere)
      aggregate == Get(filterJSON, KeyAggregate)
      orderBy == Get(filterJSON, KeyOrderBy)
      all == <<IF Exists(where) THEN processWhereNode("", where, <<>>).err ELSE "",
               IF Exists(aggregate) THEN processAggregateNode(aggregate).err ELSE "",
               IF Exists(orderBy) THEN processOrderByNode("", orderBy, <<>>).err ELSE "">>
  IN SelectSeq(all, LAMBDA x : x # "")

LastCallFailed ==
  calls # <<>> /\ HookError(calls[Len(calls)].hook, calls[Len(calls)].e) # ""

ErrorAbortsState ==
  /\ \A k \in 1..(Len(calls) - 1) : HookError(calls[k].hook, calls[k].e) = ""
  /\ err # "" => pc = "done"
  /\ LastCallFailed => err = HookError(calls[Len(calls)].hook, calls[Len(calls)].e)
  /\ (err # "" /\ ~LastCallFailed) => (InspectorErrors # <<>> /\ err = InspectorErrors[1])
  /\ hooks = AfterCalls(RegisteredHooks, calls)

\* C10: the first error, of the inspector or of a hook, is the error Inspect
\* returns; the failing call is the last hook method called, nothing is
\* called once an error is returned, and the hooks keep what the calls made
\* before the error left in them.
C10_FirstErrorAborts == []ErrorAbortsState /\ [][err = ""]_vars

\* The second hook refused an aggregate the first one had taken, after both
\* had taken another, and the order_by section of the filter was never walked.
C10_Witness ==
  /\ Returned
  /\ err = "unsupported aggregate function: bool_and"
  /\ hooks[1].Params # <<>>
  /\ hooks[1].AggregatesSlice = <<"sum_a", "bool_and_a">>
  /\ hooks[2].AggregatesSlice = <<"sum_a">>
  /\ Exists(Get(filterJSON, KeyOrderBy))
  /\ \A k \in 1..Len(calls) : calls[k].e.ev # "OrderBy"

\* The events hook i was called with so far, in order.
EventsTo(i) ==
  LET cs == SelectSeq(calls, LAMBDA c : c.hook = i)
  IN [k \in 1..Len(cs) |-> cs[k].e]

\* The section an event belongs to.
SectionOf(e) ==
  CASE e.ev \in {"Comparison", "LogicalGroupStart", "LogicalGroupEnd"} -> KeyWhere
    [] e.ev = "AggregateField" -> KeyAggregate
    [] e.ev = "OrderBy" -> KeyOrderBy
    [] OTHER -> e.src

\* The place of a section in the order Inspect is to walk them.
SectionRank == (KeyWhere :> 1) @@ (KeyAggregate :> 2) @@ (KeyOrderBy :> 3)

\* The events of a full walk of a section of the filter, none if it is absent.
SectionEvents(key) ==
  LET node == Get(filterJSON, key) IN
  IF ~Exists(node) THEN <<>>
  ELSE IF key = KeyWhere THEN processWhereNode("", node, <<>>).events
  ELSE IF key = KeyAggregate THEN processAggregateNode(node).events
  ELSE processOrderByNode("", node, <<>>).events

\* C11: whatever the order of the keys in the JSON, when Inspect has returned,
\* with an error or without, every where event came before every aggregate
\* event and these before every order_by event (no call is followed by one of
\* an earlier section); an
\* absent section gives no event and no error; a successful Inspect has made
\* the events of the where walk, then of the aggregate walk, then of the
\* order_by walk.
C11_SectionsInFixedOrder ==
  /\ Returned =>
       /\ \A k \in 1..(Len(calls) - 1) :
            SectionRank[SectionOf(calls[k].e)] <= SectionRank[SectionOf(calls[k + 1].e)]
       /\ \A key \in {SectionOf(calls[k].e) : k \in 1..Len(calls)} :
            Exists(Get(filterJSON, key))
       /\ err # "" => \E key \in DOMAIN SectionRank : Exists(Get(filterJSON, key))
  /\ Succeeded =>
       \A i \in HookIds :
         EventsTo(i) = SectionEvents(KeyWhere) \o SectionEvents(KeyAggregate)
                         \o SectionEvents(KeyOrderBy)

\* Inspect succeeded on a filter written order_by first and where last, and
\* made events of the three sections.
C11_Witness ==
  /\ Succeeded
  /\ Len(filterJSON.items) = 3
  /\ filterJSON.items[1].k = KeyOrderBy
  /\ filterJSON.items[Len(filterJSON.items)].k = KeyWhere
  /\ {SectionOf(calls[k].e) : k \in 1..Len(calls)} = DOMAIN SectionRank

\* What a Start event opens and its End event must close: the operator of a
\* group, or the field and the section of a nested node.
StartEvents == {"LogicalGroupStart", "NestedNodeStart"}
EndEvents == {"LogicalGroupEnd", "NestedNodeEnd"}
Bracket(e) ==
  IF e.ev \in {"LogicalGroupStart", "LogicalGroupEnd"}
  THEN [group |-> TRUE, operator |-> e.operator, field |-> "", src |-> ""]
  ELSE [group |-> FALSE, operator |-> "", field |-> e.field, src |-> e.src]

\* The events from the k-th on close the open brackets innermost first, open
\* and close their own properly nested, and leave none open.
RECURSIVE ProperlyNested(_, _, _)
ProperlyNested(events, k, open) ==
  IF k > Len(events) THEN open = <<>>
  ELSE IF events[k].ev \in StartEvents
  THEN ProperlyNested(events, k + 1, Append(open, Bracket(events[k])))
  ELSE IF events[k].ev \in EndEvents
  THEN /\ open # <<>>
       /\ open[Len(open)] = Bracket(events[k])
       /\ ProperlyNested(events, k + 1, SubSeq(open, 1, Len(open) - 1))
  ELSE ProperlyNested(events, k + 1, open)

CountOf(events, kinds) == Len(SelectSeq(events, LAMBDA e : e.ev \in kinds))

\* C12: after a successful Inspect the events every hook received are
\* properly nested: each LogicalGroupStart is closed by a LogicalGroupEnd of
\* the same operator and each NestedNodeStart by a NestedNodeEnd of the same
\* field and section, after the events of its children; Starts and Ends are
\* equal in number.
C12_EventsProperlyNested ==
  Succeeded =>
    \A i \in HookIds :
      /\ ProperlyNested(EventsTo(i), 1, <<>>)
      /\ CountOf(EventsTo(i), StartEvents) = CountOf(EventsTo(i), EndEvents)

\* Inspect succeeded on an empty group inside a relation inside a group.
C12_Witness ==
  /\ Succeeded
  /\ [k \in 1..Len(EventsTo(1)) |-> EventsTo(1)[k].ev] =
       <<"LogicalGroupStart", "NestedNodeStart", "LogicalGroupStart",
         "LogicalGroupEnd", "NestedNodeEnd", "LogicalGroupEnd">>

\* C13: the calls Inspect has made when it returns, with an error or
\* without, are rounds, one per event: a round calls the
\* hooks in registration order with the same event, and is complete before
\* the next begins; only the last round may stop early, at a hook that
\* returned an error.  After a successful Inspect all hooks have received the
\* same events.
C13_EveryHookInRegistrationOrder ==
  LET n == Len(RegisteredHooks) IN
  /\ Returned =>
       \A k \in 1..Len(calls) :
         /\ calls[k].hook = ((k - 1) % n) + 1
         /\ calls[k].e = calls[k - calls[k].hook + 1].e
  /\ Len(calls) % n # 0 => LastCallFailed /\ err # ""
  /\ Succeeded => \A i \in HookIds : EventsTo(i) = EventsTo(1)

\* Inspect succeeded after events of four kinds or more, each given to the
\* two hooks.
C13_Witness ==
  /\ Succeeded
  /\ Len(hooks) = 2
  /\ Cardinality({calls[k].e.ev : k \in 1..Len(calls)}) >= 4
  /\ EventsTo(2) = EventsTo(1)

\* The first fault a reader of the where tree meets, going through it in
\* source order: a node that is neither object nor array where one is
\* required ("node"), or an empty or blank key ("key"), with the non-operator
\* keys that enclose it, outermost first; "none" if there is none.
NoFault == [kind |-> "none", path |-> <<>>]
Fault(kind, path) == [kind |-> kind, path |-> path]

RECURSIVE WhereFault(_, _)
RECURSIVE WhereFaultFrom(_, _, _)
WhereFault(node, enclosing) ==
  IF node.type \notin {"Object", "Array"} THEN Fault("node", enclosing)
  ELSE WhereFaultFrom(node, 1, enclosing)

WhereFaultFrom(node, j, enclosing) ==
  IF j > Len(node.items) THEN NoFault
  ELSE LET item == node.items[j]
           here ==
             IF IsArray(node) THEN WhereFault(item, enclosing)
             ELSE IF TrimSpace(item.k) = "" THEN Fault("key", enclosing)
             ELSE IF item.k \in logicalOperators THEN WhereFault(item.v, enclosing)
             ELSE IF StartsWithUnderscore(item.k) THEN NoFault
             ELSE IF IsObject(item.v) THEN WhereFault(item.v, Append(enclosing, item.k))
             ELSE NoFault
       IN IF here.kind # "none" THEN here ELSE WhereFaultFrom(node, j + 1, enclosing)

\* The same for the order_by tree; "direction" is a terminal value that is no
\* direction, given with that value's string.
RECURSIVE OrderByFault(_, _)
RECURSIVE OrderByFaultFrom(_, _, _)
OrderByFault(node, enclosing) ==
  IF node.type \notin {"Object", "Array"} THEN Fault("node", enclosing)
  ELSE OrderByFaultFrom(node, 1, enclosing)

OrderByFaultFrom(node, j, enclosing) ==
  IF j > Len(node.items) THEN NoFault
  ELSE LET item == node.items[j]
           here ==
             IF IsArray(node) THEN OrderByFault(item, enclosing)
             ELSE IF TrimSpace(item.k) = "" THEN Fault("key", enclosing)
             ELSE IF IsObject(item.v) THEN OrderByFault(item.v, Append(enclosing, item.k))
             ELSE IF UpperTrimmed[Str(item.v)] \in {"ASC", "DESC"} THEN NoFault
             ELSE Fault("direction", <<Str(item.v)>>)
       IN IF here.kind # "none" THEN here ELSE OrderByFaultFrom(node, j + 1, enclosing)

\* The faults of the sections of the filter; none for an absent section.
FilterWhereFault ==
  IF Exists(Get(filterJSON, KeyWhere)) THEN WhereFault(Get(filterJSON, KeyWhere), <<>>)
  ELSE NoFault
FilterOrderByFault ==
  IF Exists(Get(filterJSON, KeyOrderBy)) THEN OrderByFault(Get(filterJSON, KeyOrderBy), <<>>)
  ELSE NoFault

\* Inspect returned and no hook refused a call: it walked the where section
\* to its first fault or to its end; and it reached the order_by section.
WhereWalked == Returned /\ ~LastCallFailed
OrderByReached ==
  /\ WhereWalked
  /\ FilterWhereFault.kind = "none"
  /\ Exists(Get(filterJSON, KeyAggregate)) =>
       processAggregateNode(Get(filterJSON, KeyAggregate)).err = ""

\* section.k1.k2...: the dotted path of the error messages.
Dotted(section, path) == JoinStr(<<section>> \o path, ".")

\* C14: a where node that is neither object nor array where one is required
\* makes Inspect fail with "invalid filter node: where.<path>", and such an
\* order_by node with "invalid order_by node: order_by.<path>", the path
\* being the keys that enclose the node.
C14_InvalidNodeNamesPath ==
  /\ (WhereWalked /\ FilterWhereFault.kind = "node") =>
       err = "invalid filter node: " \o Dotted(KeyWhere, FilterWhereFault.path)
  /\ (OrderByReached /\ FilterOrderByFault.kind = "node") =>
       err = "invalid order_by node: " \o Dotted(KeyOrderBy, FilterOrderByFault.path)

\* C15: an empty or blank key in the where or the order_by tree makes Inspect
\* fail with "empty key found in path: <section>.<path>", the path being the
\* keys that enclose the key; no event is made for that key or a later one.
C15_EmptyKeyNamesPath ==
  /\ (WhereWalked /\ FilterWhereFault.kind = "key") =>
       err = "empty key found in path: " \o Dotted(KeyWhere, FilterWhereFault.path)
  /\ (OrderByReached /\ FilterOrderByFault.kind = "key") =>
       err = "empty key found in path: " \o Dotted(KeyOrderBy, FilterOrderByFault.path)

\* The spellings of the two directions among the terminal values of the
\* model: equal to ASC or DESC once trimmed and upper-cased.
AscSpellings == {"asc", "ASC"}
DescSpellings == {"desc", "DESC", " Desc "}

\* The terminal entries of the order_by tree before its first fault, in
\* source order, each with the direction it normalizes to and the keys that
\* enclose it.
RECURSIVE OrderByAccepted(_, _, _)
OrderByAccepted(node, j, enclosing) ==
  IF node.type \notin {"Object", "Array"} \/ j > Len(node.items) THEN <<>>
  ELSE LET item == node.items[j]
           rest == OrderByAccepted(node, j + 1, enclosing)
       IN IF IsArray(node)
          THEN OrderByAccepted(item, 1, enclosing) \o
               (IF OrderByFault(item, enclosing).kind = "none" THEN rest ELSE <<>>)
          ELSE IF TrimSpace(item.k) = "" THEN <<>>
          ELSE IF IsObject(item.v)
          THEN OrderByAccepted(item.v, 1, Append(enclosing, item.k)) \o
               (IF OrderByFault(item.v, Append(enclosing, item.k)).kind = "none"
                THEN rest ELSE <<>>)
          ELSE IF Str(item.v) \in AscSpellings
          THEN <<[field |-> item.k, direction |-> "ASC", relations |-> enclosing]>> \o rest
          ELSE IF Str(item.v) \in DescSpellings
          THEN <<[field |-> item.k, direction |-> "DESC", relations |-> enclosing]>> \o rest
          ELSE <<>>

FilterOrderByAccepted == OrderByAccepted(Get(filterJSON, KeyOrderBy), 1, <<>>)

\* The OnOrderBy calls made to hook i, in order.
OrderByCalls(i) == SelectSeq(EventsTo(i), LAMBDA e : e.ev = "OrderBy")

\* C16: a terminal value of order_by that is ASC or DESC once trimmed and
\* upper-cased reaches OnOrderBy as ASC or DESC; the first other terminal
\* value makes Inspect fail with "invalid order_by direction: <value>", and
\* OnOrderBy is called for the entries before it only.
C16_DirectionNormalizedOrRejected ==
  OrderByReached =>
    /\ \A i \in HookIds :
         LET cs == OrderByCalls(i) IN
         /\ Len(cs) = Len(FilterOrderByAccepted)
         /\ \A k \in 1..Len(cs) :
              /\ cs[k].field = FilterOrderByAccepted[k].field
              /\ cs[k].operator = FilterOrderByAccepted[k].direction
    /\ FilterOrderByFault.kind = "direction" =>
         err = "invalid order_by direction: " \o FilterOrderByFault.path[1]
    /\ FilterOrderByFault.kind = "none" => err = ""

\* A lower-case direction was taken and the entry after it refused.
C16_Witness ==
  /\ Returned
  /\ err = "invalid order_by direction: up"
  /\ Len(OrderByCalls(1)) = 1
  /\ OrderByCalls(1)[1].operator = "DESC"

\* "r1__...__rn"."field", or "field" under no relation.
Qualified(relations, field) ==
  IF relations = <<>> THEN "\"" \o field \o "\""
  ELSE "\"" \o JoinStr(relations, "__") \o "\".\"" \o field \o "\""

\* What the accepted order_by entries are to render, in source order.
ExpectedOrderBy ==
  [k \in 1..Len(FilterOrderByAccepted) |->
     <<Qualified(FilterOrderByAccepted[k].relations, FilterOrderByAccepted[k].field),
       FilterOrderByAccepted[k].direction>>]

\* C17: the order_by entries, of an object or of an array of objects, are
\* appended in source order, each as "r1__...__rn"."field" DIRECTION under
\* the relations r1..rn, and the ORDER BY text joins them with ", ".
C17_OrderByQualifiedInOrder ==
  OrderByReached =>
    \A i \in HookIds :
      /\ hooks[i].OrderBy = ExpectedOrderBy
      /\ OrderByText(hooks[i]) = JoinTok(ExpectedOrderBy, ",")
      /\ \A k \in 1..Len(OrderByCalls(i)) :
           getColumnAlias(hooks[i], OrderByCalls(i)[k].field, OrderByCalls(i)[k].path)
             = ExpectedOrderBy[k][1]

\* An array of two entries, the second under a relation, was rendered.
C17_Witness ==
  /\ Succeeded
  /\ IsArray(Get(filterJSON, KeyOrderBy))
  /\ OrderByText(hooks[1]) = <<"\"a\"", "ASC", ",", "\"u\".\"a\"", "DESC">>

\* In a step that notifies an event, hook i is called iff the hooks before it
\* returned no error: the step adds one call per hook called.
CalledInStep(i) == Len(calls') - Len(calls) >= i
LastCalledInStep(i) == Len(calls') - Len(calls) = i

\* C18: OnComparison returns "unsupported operator: <op>" exactly when the
\* operator map of the hook's configuration lacks the operator, and then
\* leaves the hook as it was: parameters, placeholder counter, groups and
\* conditions. It holds of the two dialects of the repository, whose maps have
\* _is_null, _in and _nin; OnComparison never looks these three up for
\* presence, so it fails under a configuration without them (SpecCaller).
C18_UnsupportedOperatorLeavesHook ==
  [][NextIs("Comparison") =>
       LET op == Head(pending).operator
           unsupported == "unsupported operator: " \o op
       IN \A i \in HookIds :
            CalledInStep(i) =>
              IF op \in DOMAIN Config(hooks[i]).OperatorMap
              THEN ~(LastCalledInStep(i) /\ err' = unsupported)
              ELSE /\ LastCalledInStep(i)
                   /\ err' = unsupported
                   /\ hooks'[i] = hooks[i]]_vars

\* C19: an _in or _nin comparison whose value is not an array fails with the
\* array-value-expected error and leaves the hook's parameters, placeholder
\* counter, top-level conditions and groups as they were.
C19_InListNeedsArray ==
  [][NextIs("Comparison") /\ Head(pending).operator \in {"_in", "_nin"}
                          /\ ~IsArray(Head(pending).value) =>
       /\ err' = "array value expected, got " \o TypeName(Head(pending).value)
       /\ \A i \in HookIds :
            /\ hooks'[i].Params = hooks[i].Params
            /\ hooks'[i].ParamIndex = hooks[i].ParamIndex
            /\ hooks'[i].Conditions = hooks[i].Conditions
            /\ hooks'[i].LogicalStack = hooks[i].LogicalStack]_vars

\* An _nin over an object was refused inside an open group, after a
\* parameter was bound.
C19_Witness ==
  /\ err = "array value expected, got JSON"
  /\ calls # <<>>
  /\ calls[Len(calls)].e.operator = "_nin"
  /\ \A i \in HookIds :
       /\ Len(hooks[i].Params) = 1
       /\ hooks[i].ParamIndex = 2
       /\ Len(hooks[i].LogicalStack) = 1

\* The condition col OP ($i, ..., $i+n-1) of an _in/_nin event e over n
\* elements, for hook h before the call.
InListCondition(h, e) ==
  <<getColumnAlias(h, e.field, e.path), Config(h).OperatorMap[e.operator], "(">> \o
  JoinTok([k \in 1..Len(e.value.items) |-> <<Placeholder(h.ParamIndex + k - 1)>>], ",") \o
  <<")">>

\* C20: an _in or _nin comparison over an array of n elements appends the n
\* elements, converted, to the parameters in element order, advances the
\* placeholder counter by n and adds the one condition col OP ($i, ..., $i+n-1)
\* to the open group, or to the top-level conditions when none is open.
C20_InListBindsEachElement ==
  [][NextIs("Comparison") /\ Head(pending).operator \in {"_in", "_nin"}
                          /\ IsArray(Head(pending).value) =>
       LET e == Head(pending)
           n == Len(e.value.items)
       IN /\ err' = ""
          /\ \A i \in HookIds :
               LET h == hooks[i]
                   condition == InListCondition(h, e)
               IN /\ hooks'[i].Params =
                       h.Params \o [k \in 1..n |-> convertValue(h, e.value.items[k])]
                  /\ hooks'[i].ParamIndex = h.ParamIndex + n
                  /\ IF h.CurrentGroup = 0
                     THEN /\ hooks'[i].Conditions = Append(h.Conditions, condition)
                          /\ hooks'[i].LogicalStack = h.LogicalStack
                     ELSE /\ hooks'[i].Conditions = h.Conditions
                          /\ hooks'[i].LogicalStack =
                               [h.LogicalStack EXCEPT ![h.CurrentGroup].operations =
                                  Append(@, condition)]]_vars

\* Under a relation and after one bound parameter, _nin over three elements
\* of three types took the placeholders $2, $3, $4.
C20_Witness ==
  /\ calls # <<>>
  /\ calls[Len(calls)].e.operator = "_nin"
  /\ \A i \in HookIds :
       /\ Len(hooks[i].Params) = 4
       /\ hooks[i].ParamIndex = 5
       /\ Len(hooks[i].Conditions) = 2
       /\ hooks[i].Conditions[2] =
            <<"\"u\".\"a\"", "NOT IN", "(", "$2", ",", "$3", ",", "$4", ")">>

\* An _in was added to an open group.
C20_WitnessInGroup ==
  /\ calls # <<>>
  /\ calls[Len(calls)].e.operator = "_in"
  /\ \A i \in HookIds :
       /\ hooks[i].CurrentGroup # 0
       /\ hooks[i].LogicalStack[hooks[i].CurrentGroup].operations # <<>>
       /\ hooks[i].ParamIndex > 2

\* The AggregateField events hook i received, in order.
AggregateCalls(i) == SelectSeq(EventsTo(i), LAMBDA e : e.ev = "AggregateField")

IsPrefix(s, t) == Len(s) <= Len(t) /\ SubSeq(t, 1, Len(s)) = s

\* Inspect has returned and had come to the aggregate section: the where
\* section raised no error, neither in the walk nor in a hook.
AggregateReached ==
  /\ Returned
  /\ Exists(Get(filterJSON, KeyWhere)) =>
       processWhereNode("", Get(filterJSON, KeyWhere), <<>>).err = ""
  /\ ~(LastCallFailed /\ SectionOf(calls[Len(calls)].e) = KeyWhere)

\* The field of the event of an options object: as the claim has it, the
\* value of field, * when field is absent; as amended, * also when field is
\* null or the empty string.
ClaimedField(options) ==
  IF Exists(Get(options, "field")) THEN String(Get(options, "field")) ELSE "*"

AmendedField(options) ==
  LET field == Get(options, "field") IN
  IF ~Exists(field) \/ field.type = "Null" \/ field = JStr("") THEN "*"
  ELSE String(field)

\* The events of one function key by the form of its value: a string, an
\* array of field names, an options object; none for any other value.
EventsOfKey(function, value, asClaimed) ==
  IF value.type = "String" THEN <<AggregateEvent(function, value.str, JMissing)>>
  ELSE IF IsArray(value) /\ \A j \in 1..Len(value.items) : value.items[j].type = "String"
  THEN [j \in 1..Len(value.items) |-> AggregateEvent(function, value.items[j].str, JMissing)]
  ELSE IF IsObject(value)
  THEN <<AggregateEvent(function,
                        IF asClaimed THEN ClaimedField(value) ELSE AmendedField(value),
                        value)>>
  ELSE <<>>

RECURSIVE EventsOfKeys(_, _, _)
EventsOfKeys(entries, i, asClaimed) ==
  IF i > Len(entries) THEN <<>>
  ELSE EventsOfKey(entries[i].k, entries[i].v, asClaimed)
         \o EventsOfKeys(entries, i + 1, asClaimed)

\* The AggregateField events every hook received are the first ones of
\* those the function keys give in source order, and all of them when
\* Inspect succeeded.
AggregateEventsAre(asClaimed) ==
  (AggregateReached /\ IsObject(Get(filterJSON, KeyAggregate))) =>
    LET expected == EventsOfKeys(Get(filterJSON, KeyAggregate).items, 1, asClaimed) IN
    \A i \in HookIds :
      /\ IsPrefix(AggregateCalls(i), expected)
      /\ Succeeded => AggregateCalls(i) = expected

\* C21 as stated: for each function key a string value gives one event for
\* that field, an array of N field names N events in array order with no
\* options, an options object one event carrying the object, whose field is
\* its field value, or * when field is absent.
C21_AggregateEventsAsClaimed == AggregateEventsAre(TRUE)

\* C21 as amended: the same, the field of the event of an options object
\* being the text of its field value, or * when field is absent, null or the
\* empty string.
C21_AggregateEventsPerValueForm == AggregateEventsAre(FALSE)

\* Inspect succeeded on four function keys of the three forms: an options
\* object without field, an array of two, a string, an options object with
\* field.
C21_Witness ==
  /\ Succeeded
  /\ \A i \in HookIds :
       /\ [k \in 1..Len(AggregateCalls(i)) |-> AggregateCalls(i)[k].operator] =
            <<"count", "sum", "sum", "max", "min">>
       /\ [k \in 1..Len(AggregateCalls(i)) |-> AggregateCalls(i)[k].field] =
            <<"*", "a", "u", "a", "a">>
       /\ AggregateCalls(i)[1].value = JObj(<<KV("distinct", JFalse)>>)
       /\ AggregateCalls(i)[2].value = JMissing

\* The entries of the aggregate object before the first one whose function
\* name is empty or blank; BlankName tells that there is one.
BlankName(entries) == \E j \in 1..Len(entries) : TrimSpace(entries[j].k) = ""
BeforeBlankName(entries) ==
  LET j == CHOOSE j \in 1..Len(entries) :
             /\ TrimSpace(entries[j].k) = ""
             /\ \A k \in 1..(j - 1) : TrimSpace(entries[k].k) # ""
  IN SubSeq(entries, 1, j - 1)

\* The entries have values of the accepted forms.
AcceptedValues(entries) ==
  \A j \in 1..Len(entries) : ~parseAggregateValue(entries[j].v).nil

\* C22: when Inspect comes to an aggregate section that is not an object it
\* returns "invalid aggregate node: must be an object"; when it comes to an
\* empty or blank function name, the entries before it being accepted by the
\* walk and by the hooks, it returns "empty aggregate function name" and the
\* hooks have received the AggregateField events of the entries before it
\* only. In both cases OnOrderBy is never called.
C22_AggregateNodeAndNameErrors ==
  LET aggregate == Get(filterJSON, KeyAggregate) IN
  (AggregateReached /\ Exists(aggregate)) =>
    /\ ~IsObject(aggregate) =>
         /\ err = "invalid aggregate node: must be an object"
         /\ \A k \in 1..Len(calls) : calls[k].e.ev \notin {"AggregateField", "OrderBy"}
    /\ (IsObject(aggregate) /\ BlankName(aggregate.items)
          /\ AcceptedValues(BeforeBlankName(aggregate.items)) /\ ~LastCallFailed) =>
         /\ err = "empty aggregate function name"
         /\ \A i \in HookIds :
              AggregateCalls(i) = EventsOfKeys(BeforeBlankName(aggregate.items), 1, FALSE)
         /\ \A k \in 1..Len(calls) : calls[k].e.ev # "OrderBy"

\* Inspect returned the empty-name error after one AggregateField event, on a
\* filter that has an order_by section.
C22_Witness ==
  /\ Returned
  /\ err = "empty aggregate function name"
  /\ Exists(Get(filterJSON, KeyOrderBy))
  /\ Get(filterJSON, KeyOrderBy).items # <<>>
  /\ \A i \in HookIds : Len(AggregateCalls(i)) = 1
  /\ \A k \in 1..Len(calls) : calls[k].e.ev # "OrderBy"

\* Inspect returned the invalid-node error on an aggregate section that is
\* an array, after the where section made a call.
C22_WitnessNoObject ==
  /\ Returned
  /\ err = "invalid aggregate node: must be an object"
  /\ Exists(Get(filterJSON, KeyOrderBy))
  /\ calls # <<>>

\* C23: OnAggregateField returns "unsupported aggregate function: <name>"
\* when the aggregate map of the hook's dialect lacks the name, and then
\* leaves the hook as it was: nothing is stored in Aggregates nor added to
\* AggregatesSlice.
C23_UnsupportedAggregateStoresNothing ==
  [][NextIs("AggregateField") =>
       LET function == Head(pending).operator IN
       \A i \in HookIds :
         (CalledInStep(i) /\ function \notin DOMAIN Config(hooks[i]).AggregateFnMap) =>
           /\ LastCalledInStep(i)
           /\ err' = "unsupported aggregate function: " \o function
           /\ hooks'[i].Aggregates = hooks[i].Aggregates
           /\ hooks'[i].AggregatesSlice = hooks[i].AggregatesSlice
           /\ hooks'[i] = hooks[i]]_vars

\* The second hook refused a function its dialect lacks after it had stored
\* one aggregate; the first hook stored it.
C23_Witness ==
  /\ err = "unsupported aggregate function: bool_or"
  /\ hooks[1].AggregatesSlice = <<"sum_a", "bool_or_a">>
  /\ hooks[2].AggregatesSlice = <<"sum_a">>
  /\ DOMAIN hooks[2].Aggregates = {"sum_a"}

\* The distinct option of an AggregateField event reads as true.
Distinct(e) == Exists(e.value) /\ Bool(Get(e.value, "distinct"))

\* The column of an aggregated field: the field in the dialect's delimiters,
\* * as it is.
AggregatedColumn(h, field) ==
  IF field = "*" THEN "*"
  ELSE Config(h).NameDelimiter \o TrimSpace(field) \o Config(h).NameDelimiter

\* SQLFN(col), or SQLFN(DISTINCT col) when the distinct option reads as true.
AggregateExpression(h, e) ==
  <<Config(h).AggregateFnMap[e.operator], "(">>
    \o (IF Distinct(e) THEN <<"DISTINCT">> ELSE <<>>)
    \o <<AggregatedColumn(h, e.field), ")">>

\* The alias as the claim has it, and as amended: the dots of the field
\* are replaced by underscores.
ClaimedAlias(e) == IF e.field = "*" THEN e.operator ELSE e.operator \o "_" \o e.field
AmendedAlias(e) ==
  IF e.field = "*" THEN e.operator ELSE e.operator \o "_" \o ReplaceDots(e.field)

\* Hook i, called with event e of a function its dialect has, stored the
\* expression under the alias, last in the emission order.
Stored(i, e, alias) ==
  /\ hooks'[i].AggregatesSlice = Append(hooks[i].AggregatesSlice, alias)
  /\ alias \in DOMAIN hooks'[i].Aggregates
  /\ hooks'[i].Aggregates[alias] = AggregateExpression(hooks[i], e)
  /\ \A other \in DOMAIN hooks[i].Aggregates \ {alias} :
       /\ other \in DOMAIN hooks'[i].Aggregates
       /\ hooks'[i].Aggregates[other] = hooks[i].Aggregates[other]

\* C24 as stated: for a function the dialect has, the default builder gives
\* the alias function when the field is *, function_field otherwise, and
\* the expression SQLFN(col), or SQLFN(DISTINCT col) when distinct is true.
C24_AliasAndExpressionAsClaimed ==
  [][NextIs("AggregateField") =>
       LET e == Head(pending) IN
       \A i \in HookIds :
         (CalledInStep(i) /\ e.operator \in DOMAIN Config(hooks[i]).AggregateFnMap) =>
           Stored(i, e, ClaimedAlias(e))]_vars

\* C24 as amended: the alias is function when the field is *, otherwise
\* function_field with every dot of the field replaced by an underscore; the
\* expression is SQLFN(col), or SQLFN(DISTINCT col) when distinct reads as
\* true and the field is not *; distinct over * is refused with an error and
\* nothing is stored.
C24_AliasAndExpression ==
  [][NextIs("AggregateField") =>
       LET e == Head(pending) IN
       \A i \in HookIds :
         (CalledInStep(i) /\ e.operator \in DOMAIN Config(hooks[i]).AggregateFnMap) =>
           IF Distinct(e) /\ e.field = "*"
           THEN /\ LastCalledInStep(i)
                /\ err' = "DISTINCT can only be used with specific fields, not '*'"
                /\ hooks'[i] = hooks[i]
           ELSE Stored(i, e, AmendedAlias(e))]_vars

\* Both hooks stored a distinct count over a field with a dot, after three
\* other aggregates.
C24_Witness ==
  \A i \in HookIds :
    /\ Len(hooks[i].AggregatesSlice) = 4
    /\ hooks[i].AggregatesSlice[4] = "count_u_a"
    /\ hooks[i].Aggregates["count_u_a"] = <<"COUNT", "(", "DISTINCT", "\"u.a\"", ")">>
    /\ hooks[i].Aggregates["max_a"] = <<"MAX", "(", "\"a\"", ")">>

\* What Build is called with: the entity and the explicit columns.
Entity == "orders"
ColumnLists == {<<>>, <<"id">>, <<"id", "name">>}

\* The query a caller builds from hook h after Inspect.
Query(h, columns) == Build(GetQueryBuilder(h), Entity, columns)

\* EXPR AS alias of an AggregateField event, as hook i renders it.
AggregateOf(i, e) ==
  AggregateExpression(RegisteredHooks[i], e) \o <<"AS", AmendedAlias(e)>>

\* The last of the events that has the alias of the k-th: Aggregates is
\* keyed by alias, so its expression is the one stored under that alias.
LastWithAlias(es, k) ==
  CHOOSE l \in k..Len(es) :
    /\ AmendedAlias(es[l]) = AmendedAlias(es[k])
    /\ \A m \in (l + 1)..Len(es) : AmendedAlias(es[m]) # AmendedAlias(es[k])

ClauseWords == <<"SELECT", "FROM", "WHERE", "GROUP BY", "ORDER BY", "LIMIT", "OFFSET">>
IsClauseWord(token) == \E k \in 1..Len(ClauseWords) : ClauseWords[k] = token

\* Where the word stands in the text, none when it is absent.
Places(text, word) == {p \in 1..Len(text) : text[p] = word}

\* The tokens of the clause the word opens: those after it, up to the next
\* clause word or the end of the text.
Clause(text, word) ==
  LET p == CHOOSE p \in Places(text, word) : TRUE
      next == {n \in (p + 1)..Len(text) : IsClauseWord(text[n])}
      end == IF next = {} THEN Len(text)
             ELSE (CHOOSE n \in next : \A m \in next : n <= m) - 1
  IN SubSeq(text, p + 1, end)

Listed(names) == JoinTok([k \in 1..Len(names) |-> <<names[k]>>], ",")

\* C26: the built query has a GROUP BY clause if and only if the hook holds
\* at least one aggregate and at least one explicit column is given, and the
\* clause then lists exactly the explicit columns; a query of aggregates only
\* or of columns only has none.
C26_GroupByIffAggregatesAndColumns ==
  Returned =>
    \A i \in HookIds : \A columns \in ColumnLists :
      LET text == Query(hooks[i], columns)
          both == hooks[i].AggregatesSlice # <<>> /\ columns # <<>>
      IN /\ both => /\ Cardinality(Places(text, "GROUP BY")) = 1
                    /\ Clause(text, "GROUP BY") = Listed(columns)
         /\ ~both => Places(text, "GROUP BY") = {}

\* Inspect stored two aggregates after a where condition; the query with two
\* columns groups by them, the query without columns does not.
C26_Witness ==
  /\ Succeeded
  /\ Len(hooks[1].AggregatesSlice) = 2
  /\ hooks[1].Conditions # <<>>
  /\ Clause(Query(hooks[1], <<"id", "name">>), "GROUP BY") = <<"id", ",", "name">>
  /\ Places(Query(hooks[1], <<>>), "GROUP BY") = {}

\* The clause words of a text, in the order they stand in it.
ClauseWordsOf(text) == SelectSeq(text, IsClauseWord)

\* The clause of the word is there exactly when present holds, once, and
\* then holds the tokens given.
ClauseIs(text, word, present, tokens) ==
  IF present
  THEN Cardinality(Places(text, word)) = 1 /\ Clause(text, word) = tokens
  ELSE Places(text, word) = {}

\* C27: the built query has its clauses in the order SELECT, FROM, WHERE,
\* GROUP BY, ORDER BY, LIMIT, OFFSET; the select list is the aggregates
\* followed by the explicit columns, or * when there is neither; FROM names
\* the entity; WHERE is there exactly when the hook has conditions, ORDER BY
\* when it has order-by entries, LIMIT and OFFSET when they are set.
C27_ClausesInFixedOrder ==
  Returned =>
    \A i \in HookIds : \A columns \in ColumnLists :
      LET h == hooks[i]
          text == Query(h, columns)
          selected == selectedAggregates(GetQueryBuilder(h))
                        \o [k \in 1..Len(columns) |-> <<columns[k]>>]
      IN /\ IsSubSeq(ClauseWordsOf(text), 1, ClauseWords, 1)
         /\ text[1] = "SELECT"
         /\ ClauseIs(text, "SELECT", TRUE,
                     IF h.AggregatesSlice = <<>> /\ columns = <<>> THEN <<"*">>
                     ELSE JoinTok(selected, ","))
         /\ ClauseIs(text, "FROM", TRUE, <<Entity>>)
         /\ ClauseIs(text, "WHERE", h.Conditions # <<>>, WhereText(h))
         /\ ClauseIs(text, "ORDER BY", h.OrderBy # <<>>, OrderByText(h))
         /\ ClauseIs(text, "LIMIT", ~h.Limit.nil, <<ToString(h.Limit.v)>>)
         /\ ClauseIs(text, "OFFSET", ~h.Offset.nil, <<ToString(h.Offset.v)>>)

\* A query with every clause: an aggregate and a column, a condition, an
\* order-by entry, limit and offset set by the caller.
C27_Witness ==
  /\ Succeeded
  /\ Query(hooks[1], <<"id">>) =
       <<"SELECT", "COUNT", "(", "*", ")", "AS", "count", ",", "id", "FROM", "orders",
         "WHERE", "\"a\"", "=", "$1", "GROUP BY", "id",
         "ORDER BY", "\"a\"", "ASC", "LIMIT", "10", "OFFSET", "20">>

\* A query with no clause but SELECT * FROM, the offset set to 0 alone.
C27_WitnessBare ==
  /\ Returned
  /\ Query(hooks[2], <<>>) = <<"SELECT", "*", "FROM", "orders", "OFFSET", "0">>

\* The last n tokens of a text.
LastTokens(text, n) ==
  IF Len(text) < n THEN text ELSE SubSeq(text, Len(text) - n + 1, Len(text))

\* C28: after a successful Inspect of a filter that carries limit and offset
\* at top level, the limit and the offset of every hook hold those values and
\* the built query ends with LIMIT <limit> OFFSET <offset>.
C28_PaginationReachesHook ==
  LET limit == Get(filterJSON, "limit")
      offset == Get(filterJSON, "offset")
  IN (Succeeded /\ Exists(limit) /\ Exists(offset)) =>
       \A i \in HookIds :
         /\ ~hooks[i].Limit.nil
         /\ ~hooks[i].Offset.nil
         /\ ToString(hooks[i].Limit.v) = limit.str
         /\ ToString(hooks[i].Offset.v) = offset.str
         /\ LastTokens(Query(hooks[i], <<>>), 4) =
              <<"LIMIT", limit.str, "OFFSET", offset.str>>

\* A condition with each of its placeholders moved up by k.
Renumbered(condition, k) ==
  [j \in 1..Len(condition) |->
     IF \E n \in 1..Len(condition) : condition[j] = Placeholder(n)
     THEN Placeholder(k + CHOOSE n \in 1..Len(condition) : condition[j] = Placeholder(n))
     ELSE condition[j]]

\* Hook again is hook first with what hook fresh holds put after it, the
\* placeholders of the added conditions counted on from those of first.
ContinuesFrom(again, first, fresh) ==
  /\ again.Params = first.Params \o fresh.Params
  /\ again.ParamIndex = first.ParamIndex + Len(fresh.Params)
  /\ again.OrderBy = first.OrderBy \o fresh.OrderBy
  /\ again.Conditions =
       first.Conditions \o
         [c \in 1..Len(fresh.Conditions) |->
            Renumbered(fresh.Conditions[c], first.ParamIndex - 1)]

\* The hook holds something of a run: a condition, a parameter or an order-by
\* entry.
HoldsOutput(h) == h.Conditions # <<>> \/ h.Params # <<>> \/ h.OrderBy # <<>>

\* C30: after a successful Inspect, a second Inspect with the same hooks puts
\* its conditions, order-by entries and parameters after those of the first
\* and numbers its placeholders on from the counter the first left; where the
\* first left anything, the hook's texts and parameters differ from those of
\* a fresh hook given the second filter alone.
C30_SecondInspectAppends ==
  Succeeded =>
    \A second \in SecondFilters :
      LET again == Inspect(second, hooks)
          fresh == Inspect(second, RegisteredHooks)
      IN /\ again.err = fresh.err
         /\ \A i \in HookIds :
              /\ ContinuesFrom(again.hooks[i], hooks[i], fresh.hooks[i])
              /\ HoldsOutput(hooks[i]) =>
                   <<WhereText(again.hooks[i]), again.hooks[i].Params,
                     OrderByText(again.hooks[i])>> #
                   <<WhereText(fresh.hooks[i]), fresh.hooks[i].Params,
                     OrderByText(fresh.hooks[i])>>

\* The comparisons of a where tree in source order like EnclosedComparisons,
\* each marked grouped when its operator key lies in a logical group placed
\* in the object of its field, with no other field in between.
RECURSIVE FieldComparisons(_, _, _, _)
FieldComparisons(node, j, keys, grouped) ==
  IF node.type \notin {"Object", "Array"} \/ j > Len(node.items) THEN <<>>
  ELSE LET item == node.items[j]
           here ==
             IF IsArray(node) THEN FieldComparisons(item, 1, keys, grouped)
             ELSE IF item.k \in logicalOperators
             THEN FieldComparisons(item.v, 1, keys, keys # <<>>)
             ELSE IF StartsWithUnderscore(item.k)
             THEN IF keys = <<>>
                  THEN <<[field |-> "", relations |-> <<>>, grouped |-> FALSE]>>
                  ELSE <<[field |-> keys[Len(keys)],
                          relations |-> SubSeq(keys, 1, Len(keys) - 1),
                          grouped |-> grouped]>>
             ELSE IF IsObject(item.v)
             THEN FieldComparisons(item.v, 1, Append(keys, item.k), FALSE)
             ELSE <<[field |-> item.k, relations |-> keys, grouped |-> FALSE]>>
       IN here \o FieldComparisons(node, j + 1, keys, grouped)

\* C31: an operator key found in a logical group placed inside the object of
\* field f, at any relation depth, gives a Comparison on f whose path is the
\* list of the relations that enclose f, as it would be without the group.
C31_GroupInFieldKeepsField ==
  Returned =>
    LET expected == FieldComparisons(Get(filterJSON, KeyWhere), 1, <<>>, FALSE) IN
    \A i \in HookIds :
      LET cs == CallsTo(i, "Comparison") IN
      \A k \in 1..Len(cs) :
        (k <= Len(expected) /\ expected[k].grouped) =>
          /\ cs[k].e.field = expected[k].field
          /\ cs[k].e.path = expected[k].relations

\* The groups a sequence of events leaves open, outermost first, each with
\* its operator and the number of its members so far: the comparisons and
\* the closed sub-groups with members reached since it was opened and not
\* inside a sub-group.  groups[1] stands for the top level.
RECURSIVE OpenGroups(_, _, _)
OpenGroups(events, k, groups) ==
  IF k > Len(events) THEN groups
  ELSE LET e == events[k]
           n == Len(groups)
           counted == [groups EXCEPT ![n].members = @ + 1]
           closed == SubSeq(groups, 1, n - 1)
       IN CASE e.ev = "LogicalGroupStart" ->
                 OpenGroups(events, k + 1,
                            Append(groups, [operator |-> e.operator, members |-> 0]))
            [] e.ev = "LogicalGroupEnd" ->
                 OpenGroups(events, k + 1,
                            IF groups[n].members > 0
                            THEN [closed EXCEPT ![n - 1].members = @ + 1]
                            ELSE closed)
            [] e.ev = "Comparison" -> OpenGroups(events, k + 1, counted)
            [] OTHER -> OpenGroups(events, k + 1, groups)

TopLevel == <<[operator |-> "", members |-> 0]>>

\* The SQL word of a logical operator key.
GroupWord == ("_and" :> "AND") @@ ("_or" :> "OR") @@ ("_not" :> "NOT")

\* Between hook states h and after, the group that is on top of the stack
\* of after is the one the events opened with operator key and has got one
\* more operation.
GainsOperation(h, after, key) ==
  LET top == Len(after.LogicalStack) IN
  /\ top >= 1
  /\ Len(h.LogicalStack) >= top
  /\ after.LogicalStack[top].operator = GroupWord[key]
  /\ Len(after.LogicalStack[top].operations) =
       Len(h.LogicalStack[top].operations) + 1

\* C32: inside a logical group, every comparison a hook accepts becomes one
\* operation of the innermost group the events have left open, and every
\* sub-group closed with members becomes one operation of the group that
\* encloses it, whatever JSON shape lies between the group and them.
C32_MembersAreOperationsOfTheirGroup ==
  [][(err' = "" /\ pending # <<>>) =>
       \A i \in HookIds :
         LET open == OpenGroups(EventsTo(i), 1, TopLevel)
             n == Len(open) - 1
         IN /\ (NextIs("Comparison") /\ n >= 1) =>
                 GainsOperation(hooks[i], hooks'[i], open[n + 1].operator)
            /\ (NextIs("LogicalGroupEnd") /\ n >= 2 /\ open[n + 1].members > 0) =>
                 GainsOperation(hooks[i], hooks'[i], open[n].operator)]_vars

\* Boolean combinations: an atom stands for the n-th comparison, the others
\* combine their operands.
Atom(n) == [kind |-> "atom", n |-> n, ops |-> <<>>]
Combination(kind, ops) == [kind |-> kind, n |-> 0, ops |-> ops]
Simplified(kind, ops) == IF Len(ops) = 1 THEN ops[1] ELSE Combination(kind, ops)

\* The operations a where node gives to the group around it, in source
\* order, its comparisons numbered from next on; empty tells whether a group
\* without operations lies in the node.
RECURSIVE GroupOperations(_, _, _)
GroupOperations(node, j, next) ==
  IF node.type \notin {"Object", "Array"} \/ j > Len(node.items)
  THEN [ops |-> <<>>, next |-> next, empty |-> FALSE]
  ELSE LET item == node.items[j]
           one == [ops |-> <<Atom(next)>>, next |-> next + 1, empty |-> FALSE]
           here ==
             IF IsArray(node) THEN GroupOperations(item, 1, next)
             ELSE IF item.k \in logicalOperators
             THEN LET sub == GroupOperations(item.v, 1, next)
                      group == IF item.k = OpNot
                               THEN Combination("NOT", <<Simplified("AND", sub.ops)>>)
                               ELSE Simplified(GroupWord[item.k], sub.ops)
                  IN [ops |-> <<group>>, next |-> sub.next,
                      empty |-> sub.empty \/ sub.ops = <<>>]
             ELSE IF StartsWithUnderscore(item.k) THEN one
             ELSE IF IsObject(item.v) THEN GroupOperations(item.v, 1, next)
             ELSE one
           rest == GroupOperations(node, j + 1, here.next)
       IN [ops |-> here.ops \o rest.ops, next |-> rest.next,
           empty |-> here.empty \/ rest.empty]

\* The end of the condition that starts at pos: the next AND, OR or closing
\* parenthesis outside the parentheses of the condition itself.
RECURSIVE AtomEnd(_, _, _)
AtomEnd(text, pos, depth) ==
  IF pos > Len(text) THEN pos
  ELSE IF depth = 0 /\ text[pos] \in {"AND", "OR", ")"} THEN pos
  ELSE AtomEnd(text, pos + 1,
               CASE text[pos] = "(" -> depth + 1
                 [] text[pos] = ")" -> depth - 1
                 [] OTHER -> depth)

\* A WHERE text read under SQL precedence from pos on: NOT binds tighter
\* than AND, AND tighter than OR, parentheses group.
RECURSIVE ReadOr(_, _, _), ReadAnd(_, _, _), ReadNot(_, _, _), ReadList(_, _, _, _)
ReadNot(text, pos, atom) ==
  IF pos <= Len(text) /\ text[pos] = "NOT"
  THEN LET r == ReadNot(text, pos + 1, atom)
       IN [tree |-> Combination("NOT", <<r.tree>>), pos |-> r.pos, atom |-> r.atom]
  ELSE IF pos <= Len(text) /\ text[pos] = "("
  THEN LET r == ReadOr(text, pos + 1, atom) IN [r EXCEPT !.pos = @ + 1]
  ELSE [tree |-> Atom(atom), pos |-> AtomEnd(text, pos, 0), atom |-> atom + 1]

ReadList(text, pos, atom, word) ==
  LET first == IF word = "AND" THEN ReadNot(text, pos, atom) ELSE ReadAnd(text, pos, atom)
  IN IF first.pos <= Len(text) /\ text[first.pos] = word
     THEN LET rest == ReadList(text, first.pos + 1, first.atom, word)
          IN [ops |-> <<first.tree>> \o rest.ops, pos |-> rest.pos, atom |-> rest.atom]
     ELSE [ops |-> <<first.tree>>, pos |-> first.pos, atom |-> first.atom]

ReadAnd(text, pos, atom) ==
  LET l == ReadList(text, pos, atom, "AND")
  IN [tree |-> Simplified("AND", l.ops), pos |-> l.pos, atom |-> l.atom]

ReadOr(text, pos, atom) ==
  LET l == ReadList(text, pos, atom, "OR")
  IN [tree |-> Simplified("OR", l.ops), pos |-> l.pos, atom |-> l.atom]

\* The text is read to its end as the given combination.
Denotes(text, tree) ==
  IF text = <<>> THEN tree = Combination("AND", <<>>)
  ELSE LET r == ReadOr(text, 1, 1) IN r.pos = Len(text) + 1 /\ r.tree = tree

\* C33: for an accepted where filter without empty groups, the final WHERE
\* text read under SQL precedence is the combination of the filter's group
\* tree: the top-level items AND-ed, each _and/_or group combining its own
\* operations, each _not negating the conjunction of its operations, a group
\* of one operation standing for that operation.
C33_WhereTextDenotesGroupTree ==
  [](Succeeded =>
       LET top == GroupOperations(Get(filterJSON, KeyWhere), 1, 1) IN
       ~top.empty =>
         \A i \in HookIds : Denotes(WhereText(hooks[i]), Simplified("AND", top.ops)))

\* An OR group of two operations, one of them a group, closed beside a NOT
\* group and a comparison.
C33_Witness ==
  /\ Succeeded
  /\ WhereText(hooks[2]) =
       <<"(", "\"a\"", "=", "$1", "OR", "\"u\"", "=", "$2", "OR", "\"u\"", "IS NULL", ")",
         "AND", "NOT", "(", "\"a\"", "=", "$3", "OR", "\"u\"", "=", "$4", ")",
         "AND", "\"a\"", "IN", "(", "$5", ",", "$6", ")">>

\* C34: in every state of every hook, also after an OnComparison that
\* returned an error, the placeholder counter is the length of the parameter
\* list plus one.
C34_CounterIsParamsPlusOne ==
  [](\A i \in HookIds : hooks[i].ParamIndex = Len(hooks[i].Params) + 1)

\* An OnComparison returned an error to a hook that had bound parameters,
\* after an _in list of two elements was bound.
C34_Witness ==
  /\ LastCallFailed
  /\ calls[Len(calls)].e.ev = "Comparison"
  /\ Len(hooks[calls[Len(calls)].hook].Params) >= 3

\* The current group is nil exactly when the stack is empty and is the top
\* of the stack otherwise.
CurrentIsTop == \A i \in HookIds : hooks[i].CurrentGroup = Len(hooks[i].LogicalStack)

\* C35: in every state of every hook the current group is nil exactly when
\* the logical stack is empty and is the group on top of the stack otherwise,
\* and the condition rendered for an accepted comparison is appended to the
\* group on top of the stack, to the conditions when the stack is empty, and
\* to nothing else.
C35_CurrentGroupIsTopOfStack ==
  /\ []CurrentIsTop
  /\ [][(NextIs("Comparison") /\ err' = "") =>
          \A i \in HookIds :
            LET n == Len(hooks[i].LogicalStack) IN
            /\ Len(hooks'[i].LogicalStack) = n
            /\ Len(OpenList(hooks'[i])) = Len(OpenList(hooks[i])) + 1
            /\ IsPrefix(OpenList(hooks[i]), OpenList(hooks'[i]))
            /\ n > 0 => hooks'[i].Conditions = hooks[i].Conditions
            /\ \A d \in 1..(n - 1) : hooks'[i].LogicalStack[d] = hooks[i].LogicalStack[d]]_vars

\* A comparison was rendered into the inner of two open groups.
C35_Witness ==
  /\ err = ""
  /\ Len(hooks[1].LogicalStack) = 2
  /\ hooks[1].CurrentGroup = 2
  /\ Len(hooks[1].LogicalStack[2].operations) = 1
  /\ Len(hooks[1].LogicalStack[1].operations) = 1

\* C36: every Comparison event carries a non-blank field name, also for a
\* comparison-operator key written with no field around it.
C36_ComparisonFieldNotBlank ==
  \A k \in 1..Len(calls) :
    calls[k].e.ev = "Comparison" => TrimSpace(calls[k].e.field) # ""

\* The comparisons of a where tree in source order like EnclosedComparisons,
\* each with the array written as the value of its field, if one is.
RECURSIVE ArrayComparisons(_, _, _, _)
ArrayComparisons(node, j, keys, grouped) ==
  IF node.type \notin {"Object", "Array"} \/ j > Len(node.items) THEN <<>>
  ELSE LET item == node.items[j]
           here ==
             IF IsArray(node) THEN ArrayComparisons(item, 1, keys, grouped)
             ELSE IF item.k \in logicalOperators
             THEN ArrayComparisons(item.v, 1, keys, TRUE)
             ELSE IF StartsWithUnderscore(item.k)
             THEN <<[field |-> "", relations |-> <<>>, grouped |-> grouped,
                     array |-> JMissing]>>
             ELSE IF IsObject(item.v)
             THEN ArrayComparisons(item.v, 1, Append(keys, item.k), grouped)
             ELSE <<[field |-> item.k, relations |-> keys, grouped |-> grouped,
                     array |-> IF IsArray(item.v) THEN item.v ELSE JMissing]>>
       IN here \o ArrayComparisons(node, j + 1, keys, grouped)

\* The number of non-operator keys with an object value in a where tree.
RECURSIVE NestedNodes(_, _)
NestedNodes(node, j) ==
  IF node.type \notin {"Object", "Array"} \/ j > Len(node.items) THEN 0
  ELSE LET item == node.items[j]
           here ==
             IF IsArray(node) THEN NestedNodes(item, 1)
             ELSE IF item.k \in logicalOperators THEN NestedNodes(item.v, 1)
             ELSE IF StartsWithUnderscore(item.k) THEN 0
             ELSE IF IsObject(item.v) THEN 1 + NestedNodes(item.v, 1)
             ELSE 0
       IN here + NestedNodes(node, j + 1)

\* The nested-node calls of one kind made to hook i for the where section.
WhereNested(i, kind) ==
  SelectSeq(calls, LAMBDA c : c.hook = i /\ c.e.ev = kind /\ c.e.src = KeyWhere)

\* After a successful Inspect each field written with an array value has
\* given one Comparison(field, _eq, the array, path) in its place among the
\* comparisons, and the nested-node events are those of the object values.
ArraySugarIsOneComparison ==
  Succeeded =>
    LET where == Get(filterJSON, KeyWhere)
        expected == ArrayComparisons(where, 1, <<>>, FALSE)
    IN \A i \in HookIds :
         LET cs == CallsTo(i, "Comparison") IN
         /\ Len(cs) = Len(expected)
         /\ Len(WhereNested(i, "NestedNodeStart")) = NestedNodes(where, 1)
         /\ Len(WhereNested(i, "NestedNodeEnd")) = NestedNodes(where, 1)
         /\ \A k \in 1..Len(expected) :
              Exists(expected[k].array) =>
                /\ cs[k].e.field = expected[k].field
                /\ cs[k].e.operator = "_eq"
                /\ cs[k].e.value = expected[k].array
                /\ IsSubSeq(cs[k].e.path, 1, expected[k].relations, 1)
                /\ ~expected[k].grouped => cs[k].e.path = expected[k].relations

\* An accepted _eq comparison with an array value binds the array as one
\* parameter under one placeholder.
ArrayBoundAsOneParameter ==
  (NextIs("Comparison") /\ Head(pending).operator = "_eq"
     /\ IsArray(Head(pending).value) /\ err' = "") =>
    \A i \in HookIds :
      LET h == hooks[i]
          e == Head(pending)
      IN /\ Len(hooks'[i].Params) = Len(h.Params) + 1
         /\ hooks'[i].Params[Len(h.Params) + 1] =
              [go |-> "[]interface {}", v |-> ToString(e.value.items)]
         /\ hooks'[i].ParamIndex = h.ParamIndex + 1
         /\ OpenList(hooks'[i]) =
              Append(OpenList(h), <<getColumnAlias(h, e.field, e.path), "=",
                                    Placeholder(h.ParamIndex)>>)

\* C37: a non-operator key of the where section whose value is an array is
\* scalar sugar: it gives exactly one Comparison(key, _eq, array, path) and
\* no nested-node events, and the hook binds the whole array as one parameter.
C37_ArrayValueIsScalarSugar ==
  []ArraySugarIsOneComparison /\ [][ArrayBoundAsOneParameter]_vars

\* A field in a relation was written with an array of one object as value,
\* another with an empty array, and both arrays were bound.
C37_Witness ==
  /\ Succeeded
  /\ Len(WhereNested(1, "NestedNodeStart")) = 1
  /\ hooks[1].Conditions =
       <<<<"\"u\".\"a\"", "=", "$1">>, <<"\"u\".\"u\"", "=", "$2">>, <<"\"a\"", "=", "$3">>>>
  /\ hooks[1].Params[1].go = "[]interface {}"
  /\ hooks[1].Params[2] = [go |-> "[]interface {}", v |-> ToString(<<>>)]

\* C38: in every state of every hook the emission-order record holds each
\* alias at most once and its aliases are the keys of the aggregate map.
C38_RecordAndMapAgree ==
  \A i \in HookIds :
    LET record == hooks[i].AggregatesSlice IN
    /\ \A j, k \in 1..Len(record) : record[j] = record[k] => j = k
    /\ {record[k] : k \in 1..Len(record)} = DOMAIN hooks[i].Aggregates

\* The events given to hook i by the calls cs.
EventsIn(cs, i) ==
  LET to == SelectSeq(cs, LAMBDA c : c.hook = i)
  IN [k \in 1..Len(to) |-> to[k].e]

\* After the calls cs each hook has received a prefix of what every hook
\* registered before it has received, shorter by one event at most.
LaterHooksFollow(cs) ==
  \A i, j \in HookIds :
    i < j => /\ IsPrefix(EventsIn(cs, j), EventsIn(cs, i))
             /\ Len(EventsIn(cs, i)) - Len(EventsIn(cs, j)) <= 1

\* C39: after each call made during an Inspect, a hook registered later has
\* received a prefix of the events of every hook registered before it,
\* shorter by one event at most; a call that returns an error is the last
\* call made: the hooks registered before the failing one have received the
\* event and those registered after it never do.
C39_LaterHooksReceivePrefix ==
  [][/\ \A m \in (Len(calls) + 1)..Len(calls') : LaterHooksFollow(SubSeq(calls', 1, m))
     /\ \A m \in (Len(calls) + 1)..(Len(calls') - 1) :
          HookError(calls'[m].hook, calls'[m].e) = ""
     /\ LastCallFailed => calls' = calls
     /\ LastCallFailed' =>
          LET failed == calls'[Len(calls')] IN
          \A i \in HookIds :
            /\ i < failed.hook => EventsIn(calls', i) = EventsIn(calls', failed.hook)
            /\ i > failed.hook =>
                 Len(EventsIn(calls', i)) = Len(EventsIn(calls', failed.hook)) - 1]_vars

\* The first hook refused an event after three accepted by both hooks, and
\* the second hook was left one event short.
C39_Witness ==
  /\ Returned
  /\ LastCallFailed
  /\ calls[Len(calls)].hook = 1
  /\ Len(EventsIn(calls, 1)) >= 4
  /\ Len(EventsIn(calls, 2)) = Len(EventsIn(calls, 1)) - 1

\* The second hook refused an event the first hook had accepted.
C39_WitnessSecond ==
  /\ Returned
  /\ LastCallFailed
  /\ calls[Len(calls)].hook = 2
  /\ EventsIn(calls, 1) = EventsIn(calls, 2)

DistinctOverAll == "DISTINCT can only be used with specific fields, not '*'"

\* A hook that knows the function of an AggregateField event with field * and
\* a true distinct option returns the error and is left as it was.
DistinctOverAllRejected ==
  (NextIs("AggregateField") /\ Head(pending).field = "*" /\ Distinct(Head(pending))) =>
    \A i \in HookIds :
      (CalledInStep(i) /\ Head(pending).operator \in DOMAIN Config(hooks[i]).AggregateFnMap) =>
        /\ LastCalledInStep(i)
        /\ err' = DistinctOverAll
        /\ hooks'[i] = hooks[i]

\* The aggregate section starts with a function every hook knows whose value
\* is an options object with a true distinct and a field that is absent or
\* reads as the empty string or as *.
StartsWithDistinctOverAll(aggregate) ==
  /\ IsObject(aggregate)
  /\ aggregate.items # <<>>
  /\ LET first == aggregate.items[1] IN
     /\ \A i \in 1..Len(RegisteredHooks) :
          first.k \in DOMAIN Config(RegisteredHooks[i]).AggregateFnMap
     /\ IsObject(first.v)
     /\ Bool(Get(first.v, "distinct"))
     /\ String(Get(first.v, "field")) \in {"", "*"}

\* Inspect of such a section returns the error with no aggregate stored.
NoFieldDistinctRejected ==
  (AggregateReached /\ StartsWithDistinctOverAll(Get(filterJSON, KeyAggregate))) =>
    /\ err = DistinctOverAll
    /\ \A i \in HookIds : hooks[i].AggregatesSlice = <<>> /\ DOMAIN hooks[i].Aggregates = {}

\* C40: the default aggregate builder rejects the distinct option when the
\* field is *, also for an options object with distinct true and no field:
\* OnAggregateField returns the error and stores no aggregate.
C40_DistinctOverAllRejected ==
  []NoFieldDistinctRejected /\ [][DistinctOverAllRejected]_vars

\* An options object with distinct true and no field was refused after the
\* where section had left a condition.
C40_Witness ==
  /\ Returned
  /\ err = DistinctOverAll
  /\ Get(filterJSON, KeyAggregate) = JObj(<<KV("count", JObj(<<KV("distinct", JTrue)>>))>>)
  /\ Len(hooks[1].Conditions) = 1
  /\ hooks[1].AggregatesSlice = <<>>

\* The state machine and the run taken as a whole agree on the outcome.
RunAgrees ==
  Returned =>
    LET r == Inspect(filterJSON, RegisteredHooks)
    IN hooks = r.hooks /\ calls = r.made /\ err = r.err

====
